---- MODULE Spec2Model ----
(***************************************************************************)
(* Font group system: upload validation, filename sanitizing, the font     *)
(* store of the two servers, and the client's face activation.             *)
(*                                                                         *)
(* Strings are sequences of one-character strings; a byte buffer is a      *)
(* record of its length, its first four bytes and a tag that stands for    *)
(* the rest of its contents.                                               *)
(***************************************************************************)
EXTENDS Integers, Sequences, FiniteSets, TLC

VARIABLES
    buffer,          \* the byte buffer handed to the validators
    serverVerdict,   \* FontValidator.isValidTTFFile(buffer): "unset" | "accept" | "reject"
    clientVerdict,   \* isValidFontBuffer(buffer):            "unset" | "accept" | "reject"
    rawName,         \* the filename handed to sanitizeFilename
    safeName,        \* sanitizeFilename(rawName), <<"?">> before the call
    safeTwice,       \* sanitizeFilename(safeName), <<"?">> before the call
    sanitizeCalls,   \* how many times sanitizeFilename has been applied (0..2)
    server,          \* which server runs: "http" (validating) | "express" (multer)
    files,           \* uploads/fonts: filename -> contents
    lastRequest,     \* the font request handled last
    lastResponse,    \* its response: [status, error]
    loadingPromises, \* FontLoadingCache.loadingPromises: key -> promise
    cacheLoaded,     \* FontLoadingCache.loadedFonts
    cacheFailed,     \* FontLoadingCache.failedFonts
    promiseState,    \* promise -> "pending" | "fulfilled" | "rejected"
    promiseKey,      \* promise -> the key setLoading registered it for
    fonts,           \* App state: the font records (by filename), in order
    effectDue,       \* fonts changed and the load-all effect has not run yet
    runs,            \* the loadAllFonts runs started so far
    acts,            \* the loadFontWithPackages calls made so far
    loadingRef,      \* loadingRef.current: the font keys being loaded
    documentFonts,   \* document.fonts: the calls whose FontFace was added
    loadedFonts,     \* App state: the font ids reported loaded
    fontMetadata,    \* App state: the font ids that have metadata
    loadedBy,        \* the calls whose returned id was put into loadedFonts
    resolveFont,     \* the file whose record parseFontWithPackage is called for
    resolveOutcome,  \* what fetching and parsing that file does
    resolved,        \* the fontData parseFontWithPackage returned
    listing,         \* the records getAllFonts returned, by filename
    groups,          \* groups.json: the stored groups, in order
    clock,           \* Date.now() of the server
    lastGroupRequest,  \* the group request handled last
    lastGroupResponse, \* its response: [status, fontsLength]
    previews,        \* the PackageBasedPreview components, one per listed font
    heurFamily,      \* the family a stored file was named after
    heurFile,        \* the stored file whose record the heuristics resolve
    heurResult,      \* what the three heuristic resolvers return for it
    matchFile,       \* the stored file whose preview is rendered
    matchKeys,       \* Object.keys(fontMetadata), in insertion order
    matchLoaded,     \* the loadedFonts prop
    matchResult      \* what the two previews find for the record

validatorVars == <<buffer, serverVerdict, clientVerdict>>
sanitizerVars == <<rawName, safeName, safeTwice, sanitizeCalls>>
storeVars == <<server, files, lastRequest, lastResponse>>
cacheVars == <<loadingPromises, cacheLoaded, cacheFailed, promiseState, promiseKey>>
clientVars == <<fonts, effectDue, runs, acts, loadingRef, documentFonts,
                loadedFonts, fontMetadata, loadedBy>>
resolverVars == <<resolveFont, resolveOutcome, resolved>>
listingVars == <<listing>>
groupVars == <<groups, clock, lastGroupRequest, lastGroupResponse>>
previewVars == <<previews>>
heuristicVars == <<heurFamily, heurFile, heurResult>>
matchVars == <<matchFile, matchKeys, matchLoaded, matchResult>>
vars == <<validatorVars, sanitizerVars, storeVars, cacheVars, clientVars,
          resolverVars, listingVars, groupVars, previewVars, heuristicVars,
          matchVars>>

-----------------------------------------------------------------------------
(* Bounds of the model.                                                    *)

\* Longest raw filename handed to the sanitizer.
MaxNameLen == 5

\* Promises handed to FontLoadingCache.setLoading.
MaxPromises == 3

\* Calls of loadFontWithPackages in one session.
MaxActivations == 3

\* Runs of the load-all effect in one session.
MaxRuns == 2

\* Groups in groups.json at one time.
MaxGroups == 2

\* Entries in the fonts array of a request or a form.
MaxFonts == 2

\* Milliseconds Date.now() advances over while groups are created.
MaxClock == 2

\* FontFace loads one preview component issues in one session.
MaxPreviewLoads == 3

\* Keys of fontMetadata a preview is rendered with.
MaxKeys == 2

\* Fonts in the record set when fonts are deleted.
MaxFontSet == 3

-----------------------------------------------------------------------------
(* Strings.                                                                *)

\* The characters raw filenames are drawn from: lower- and upper-case
\* letters, the dot, and a character outside [a-zA-Z0-9\-_.].
NameChars == {"a", "t", "f", "T", "F", ".", "/"}

LowerLetters == {"a", "b", "c", "d", "e", "f", "g", "h", "i", "j", "k", "l", "m",
                 "n", "o", "p", "q", "r", "s", "t", "u", "v", "w", "x", "y", "z"}
UpperLetters == {"A", "B", "C", "D", "E", "F", "G", "H", "I", "J", "K", "L", "M",
                 "N", "O", "P", "Q", "R", "S", "T", "U", "V", "W", "X", "Y", "Z"}
Digits == {"0", "1", "2", "3", "4", "5", "6", "7", "8", "9"}

\* The character class [a-zA-Z0-9\-_.] of sanitizeFilename.
SafeChars == LowerLetters \cup UpperLetters \cup Digits \cup {"-", "_", "."}

UpperToLower ==
    [c \in UpperLetters |->
        CASE c = "A" -> "a" [] c = "B" -> "b" [] c = "C" -> "c" [] c = "D" -> "d"
          [] c = "E" -> "e" [] c = "F" -> "f" [] c = "G" -> "g" [] c = "H" -> "h"
          [] c = "I" -> "i" [] c = "J" -> "j" [] c = "K" -> "k" [] c = "L" -> "l"
          [] c = "M" -> "m" [] c = "N" -> "n" [] c = "O" -> "o" [] c = "P" -> "p"
          [] c = "Q" -> "q" [] c = "R" -> "r" [] c = "S" -> "s" [] c = "T" -> "t"
          [] c = "U" -> "u" [] c = "V" -> "v" [] c = "W" -> "w" [] c = "X" -> "x"
          [] c = "Y" -> "y" [] c = "Z" -> "z"]

\* String.prototype.toLowerCase
toLowerCase(s) ==
    [i \in 1..Len(s) |-> IF s[i] \in UpperLetters THEN UpperToLower[s[i]] ELSE s[i]]

\* String.prototype.endsWith
endsWith(s, suffix) ==
    /\ Len(s) >= Len(suffix)
    /\ SubSeq(s, Len(s) - Len(suffix) + 1, Len(s)) = suffix

DotTtf == <<".", "t", "t", "f">>

\* All strings over chars of length at most n.
StringsUpTo(chars, n) == UNION {[1..k -> chars] : k \in 0..n}

-----------------------------------------------------------------------------
(* Binary Validator.                                                       *)

\* Minimum length of a font buffer.
MinFontBytes == 100

\* validateFileSize: 10 * 1024 * 1024
maxSize == 10485760

\* The four signatures, as the code writes them.
SigTrueType == 65536         \* 0x00010000
SigTrue     == 1953658213    \* 0x74727565
SigOTTO     == 1330926671    \* 0x4F54544F
SigTtcf     == 1953784678    \* 0x74746366
validSignatures == {SigTrueType, SigTrue, SigOTTO, SigTtcf}

\* Buffer.readUInt32BE(0) / DataView.getUint32(0, false)
readUInt32BE(head) ==
    head[1] * 16777216 + head[2] * 65536 + head[3] * 256 + head[4]

isValidTTFFileWrongEndian(buf) ==
    IF buf.length < MinFontBytes THEN FALSE
    ELSE (buf.head[4] * 16777216 + buf.head[3] * 65536
            + buf.head[2] * 256 + buf.head[1]) \in validSignatures

\* FontValidator.isValidTTFFile (server)
isValidTTFFile(buf) ==
    IF buf.length < MinFontBytes THEN FALSE
    ELSE readUInt32BE(buf.head) \in validSignatures

\* isValidFontBuffer (client)
isValidFontBuffer(buf) ==
    IF buf.length < MinFontBytes THEN FALSE
    ELSE readUInt32BE(buf.head) \in validSignatures

\* FontValidator.validateFileSize
validateFileSize(buf) == buf.length <= maxSize

\* Byte values the first four bytes are drawn from: the bytes of the four
\* signatures (0x00 0x01, 't' 'r' 'u' 'e', 'O' 'T', 'c' 'f').
HeadBytes == {0, 1, 116, 114, 117, 101, 79, 84, 99, 102}

\* Buffer lengths around the two thresholds.
BufferLengths == {4, MinFontBytes - 1, MinFontBytes, MinFontBytes + 1,
                  maxSize, maxSize + 1}

ValidatorBuffers ==
    [length : BufferLengths, head : [1..4 -> HeadBytes], tag : {"x"}]

Verdict(b) == IF b THEN "accept" ELSE "reject"

IdleBuffer == [length |-> 4, head |-> <<0, 0, 0, 0>>, tag |-> "x"]

\* The server validates the buffer.
ServerValidate ==
    /\ serverVerdict = "unset"
    /\ serverVerdict' = Verdict(isValidTTFFile(buffer))
    /\ UNCHANGED <<buffer, clientVerdict, sanitizerVars, storeVars, cacheVars, clientVars, resolverVars, listingVars, groupVars, previewVars, heuristicVars, matchVars>>

\* The client validates the buffer.
ClientValidate ==
    /\ clientVerdict = "unset"
    /\ clientVerdict' = Verdict(isValidFontBuffer(buffer))
    /\ UNCHANGED <<buffer, serverVerdict, sanitizerVars, storeVars, cacheVars, clientVars, resolverVars, listingVars, groupVars, previewVars, heuristicVars, matchVars>>

-----------------------------------------------------------------------------
(* Filename Sanitizer.                                                     *)

\* .replace(/[^a-zA-Z0-9\-_.]/g, '')
stripUnsafe(s) == SelectSeq(s, LAMBDA c : c \in SafeChars)

\* .replace(/\.+/g, '.') : every run of dots becomes one dot
RECURSIVE collapseDots(_)
collapseDots(s) ==
    IF Len(s) <= 1 THEN s
    ELSE IF s[1] = "." /\ s[2] = "." THEN collapseDots(Tail(s))
    ELSE <<s[1]>> \o collapseDots(Tail(s))

\* Position of the last dot of s, 0 when there is none.
lastDot(s) ==
    LET dots == {i \in 1..Len(s) : s[i] = "."}
    IN IF dots = {} THEN 0 ELSE CHOOSE i \in dots : \A j \in dots : j <= i

\* .replace(/\.[^.]*$/, '') : drop the last dot and what follows it
dropLastExtension(s) ==
    IF lastDot(s) = 0 THEN s ELSE SubSeq(s, 1, lastDot(s) - 1)

sanitizeFilenameAlwaysAppend(filename) ==
    collapseDots(stripUnsafe(filename)) \o DotTtf

sanitizeFilenameKeepDots(filename) ==
    LET sanitized == stripUnsafe(filename)
    IN IF ~endsWith(toLowerCase(sanitized), DotTtf)
       THEN dropLastExtension(sanitized) \o DotTtf
       ELSE sanitized

\* FontValidator.sanitizeFilename
sanitizeFilename(filename) ==
    LET sanitized == collapseDots(stripUnsafe(filename))
    IN IF ~endsWith(toLowerCase(sanitized), DotTtf)
       THEN dropLastExtension(sanitized) \o DotTtf
       ELSE sanitized

RawNames == StringsUpTo(NameChars, MaxNameLen)

Unset == <<"?">>

\* sanitizeFilename applied to the raw name.
SanitizeOnce ==
    /\ sanitizeCalls = 0
    /\ safeName' = sanitizeFilename(rawName)
    /\ sanitizeCalls' = 1
    /\ UNCHANGED <<rawName, safeTwice, validatorVars, storeVars, cacheVars, clientVars, resolverVars, listingVars, groupVars, previewVars, heuristicVars, matchVars>>

\* sanitizeFilename applied to its own result (deleteFont sanitizes the
\* filename saveFont returned).
SanitizeAgain ==
    /\ sanitizeCalls = 1
    /\ safeTwice' = sanitizeFilename(safeName)
    /\ sanitizeCalls' = 2
    /\ UNCHANGED <<rawName, safeName, validatorVars, storeVars, cacheVars, clientVars, resolverVars, listingVars, groupVars, previewVars, heuristicVars, matchVars>>

-----------------------------------------------------------------------------
(* Font store: uploads/fonts as the two servers read and write it.         *)

\* String.prototype.includes for one character.
hasChar(s, c) == \E i \in 1..Len(s) : s[i] = c

Str_a_ttf   == <<"a", ".", "t", "t", "f">>
Str_a_TTF   == <<"a", ".", "T", "T", "F">>
Str_sl_a_ttf == <<"/", "a", ".", "t", "t", "f">>
Str_a_otf   == <<"a", ".", "o", "t", "f">>

\* Filenames of upload requests: a plain name, one differing only by an
\* unsafe character, one with an upper-case extension, one with another
\* extension.
UploadNames == {Str_a_ttf, Str_sl_a_ttf, Str_a_TTF, Str_a_otf}

\* Filenames of delete requests (a path segment holds no '/').
DeleteNames == {n \in UploadNames : ~hasChar(n, "/")}

\* Uploaded contents: two different valid fonts, a short file, a file with
\* an unknown signature, a file over the size limit.
FontA    == [length |-> MinFontBytes, head |-> <<79, 84, 84, 79>>, tag |-> "A"]
FontB    == [length |-> MinFontBytes, head |-> <<79, 84, 84, 79>>, tag |-> "B"]
TooShort == [length |-> MinFontBytes - 1, head |-> <<0, 1, 0, 0>>, tag |-> "S"]
BadSig   == [length |-> MinFontBytes, head |-> <<0, 0, 0, 0>>, tag |-> "X"]
TooLarge == [length |-> maxSize + 1, head |-> <<0, 1, 0, 0>>, tag |-> "L"]
UploadData == {FontA, FontB, TooShort, BadSig, TooLarge}

MimeTypes == {"font/ttf", "application/octet-stream"}

NoFiles == [n \in {} |-> IdleBuffer]
NoRequest == [op |-> "none", filename |-> <<>>, data |-> IdleBuffer, mimetype |-> "none"]
NoResponse == [status |-> 0, error |-> "none"]

Ok == [status |-> 200, error |-> "none"]
Failure(status, error) == [status |-> status, error |-> error]

\* fs.existsSync(path.join(uploadsDir, name))
existsSync(name) == name \in DOMAIN files

\* fs.writeFileSync(filePath, data) / multer's disk write: creates or overwrites
writeFileSync(name, data) ==
    [n \in DOMAIN files \cup {name} |-> IF n = name THEN data ELSE files[n]]

\* fs.unlinkSync(filePath)
unlinkSync(name) == [n \in DOMAIN files \ {name} |-> files[n]]

\* FontService.saveFont, and the route's answer to what it returns or throws
saveFont(filename, data) ==
    IF ~isValidTTFFile(data) THEN [stored |-> files, response |-> Failure(400, "Invalid TTF file format")]
    ELSE IF ~validateFileSize(data) THEN [stored |-> files, response |-> Failure(400, "Font file is too large (max 10MB)")]
    ELSE IF existsSync(sanitizeFilename(filename)) THEN [stored |-> files, response |-> Failure(400, "Font file already exists")]
    ELSE [stored |-> writeFileSync(sanitizeFilename(filename), data), response |-> Ok]

\* POST /api/fonts/upload of the validating server
UploadHttp(filename, data) ==
    /\ server = "http"
    /\ lastRequest' = [op |-> "upload", filename |-> filename, data |-> data, mimetype |-> "none"]
    /\ files' = saveFont(filename, data).stored
    /\ lastResponse' = saveFont(filename, data).response
    /\ UNCHANGED <<server, validatorVars, sanitizerVars, cacheVars, clientVars, resolverVars, listingVars, groupVars, previewVars, heuristicVars, matchVars>>

\* ValidationService.validateTTFFile
validateTTFFile(originalname, mimetype) ==
    mimetype = "font/ttf" \/ endsWith(toLowerCase(originalname), DotTtf)

\* multer.diskStorage with the fileFilter, and the upload route
multerUpload(originalname, mimetype, data) ==
    IF ~validateTTFFile(originalname, mimetype)
    THEN [stored |-> files, response |-> Failure(500, "Only TTF files are allowed!")]
    ELSE [stored |-> writeFileSync(originalname, data), response |-> Ok]

\* POST /api/fonts/upload of the express server
UploadExpress(originalname, mimetype, data) ==
    /\ server = "express"
    /\ lastRequest' = [op |-> "upload", filename |-> originalname, data |-> data, mimetype |-> mimetype]
    /\ files' = multerUpload(originalname, mimetype, data).stored
    /\ lastResponse' = multerUpload(originalname, mimetype, data).response
    /\ UNCHANGED <<server, validatorVars, sanitizerVars, cacheVars, clientVars, resolverVars, listingVars, groupVars, previewVars, heuristicVars, matchVars>>

\* The file deleteFont looks for: the validating server sanitizes the name.
deleteTarget(filename) ==
    IF server = "http" THEN sanitizeFilename(filename) ELSE filename

\* FontService.deleteFont and DELETE /api/fonts/:filename
DeleteFont(filename) ==
    /\ lastRequest' = [op |-> "delete", filename |-> filename, data |-> IdleBuffer, mimetype |-> "none"]
    /\ files' = IF existsSync(deleteTarget(filename)) THEN unlinkSync(deleteTarget(filename)) ELSE files
    /\ lastResponse' = IF existsSync(deleteTarget(filename)) THEN Ok ELSE Failure(404, "Font not found")
    /\ UNCHANGED <<server, validatorVars, sanitizerVars, cacheVars, clientVars, resolverVars, listingVars, groupVars, previewVars, heuristicVars, matchVars>>

-----------------------------------------------------------------------------
(* FontLoadingCache: the loading / loaded / failed bookkeeping per key.     *)

CacheKeys == {"k1", "k2"}

NoPromises == [p \in {} |-> "pending"]
NoKeys == [p \in {} |-> "k1"]
NoLoading == [k \in {} |-> 0]

\* FontLoadingCache.isLoading
isLoading(fontKey) == fontKey \in DOMAIN loadingPromises

\* FontLoadingCache.isLoaded
isLoaded(fontKey) == fontKey \in cacheLoaded

\* FontLoadingCache.hasFailed
hasFailed(fontKey) == fontKey \in cacheFailed

\* this.loadingPromises.delete(fontKey)
deleteLoading(fontKey) ==
    [k \in DOMAIN loadingPromises \ {fontKey} |-> loadingPromises[k]]

\* FontLoadingCache.setLoading(fontKey, promise) with a new pending promise:
\* the entry of the key is set (replacing an earlier one) and the then/catch
\* callbacks are attached to the promise.
SetLoading(fontKey) ==
    /\ Cardinality(DOMAIN promiseState) < MaxPromises
    /\ LET p == Cardinality(DOMAIN promiseState) + 1
       IN /\ loadingPromises' =
                [k \in DOMAIN loadingPromises \cup {fontKey} |->
                    IF k = fontKey THEN p ELSE loadingPromises[k]]
          /\ promiseState' = [q \in DOMAIN promiseState \cup {p} |->
                                 IF q = p THEN "pending" ELSE promiseState[q]]
          /\ promiseKey' = [q \in DOMAIN promiseKey \cup {p} |->
                               IF q = p THEN fontKey ELSE promiseKey[q]]
    /\ UNCHANGED <<cacheLoaded, cacheFailed>>
    /\ UNCHANGED <<validatorVars, sanitizerVars, storeVars, clientVars, resolverVars, listingVars, groupVars, previewVars, heuristicVars, matchVars>>

\* The promise resolves: the .then callback of setLoading runs.
PromiseResolves(p) ==
    /\ p \in DOMAIN promiseState
    /\ promiseState[p] = "pending"
    /\ promiseState' = [promiseState EXCEPT ![p] = "fulfilled"]
    /\ cacheLoaded' = cacheLoaded \cup {promiseKey[p]}
    /\ loadingPromises' = deleteLoading(promiseKey[p])
    /\ UNCHANGED <<cacheFailed, promiseKey>>
    /\ UNCHANGED <<validatorVars, sanitizerVars, storeVars, clientVars, resolverVars, listingVars, groupVars, previewVars, heuristicVars, matchVars>>

\* The promise rejects: the .catch callback of setLoading runs.
PromiseRejects(p) ==
    /\ p \in DOMAIN promiseState
    /\ promiseState[p] = "pending"
    /\ promiseState' = [promiseState EXCEPT ![p] = "rejected"]
    /\ cacheFailed' = cacheFailed \cup {promiseKey[p]}
    /\ loadingPromises' = deleteLoading(promiseKey[p])
    /\ UNCHANGED <<cacheLoaded, promiseKey>>
    /\ UNCHANGED <<validatorVars, sanitizerVars, storeVars, clientVars, resolverVars, listingVars, groupVars, previewVars, heuristicVars, matchVars>>

\* FontLoadingCache.removeFont
RemoveFont(fontKey) ==
    /\ loadingPromises' = deleteLoading(fontKey)
    /\ cacheLoaded' = cacheLoaded \ {fontKey}
    /\ cacheFailed' = cacheFailed \ {fontKey}
    /\ UNCHANGED <<promiseState, promiseKey>>
    /\ UNCHANGED <<validatorVars, sanitizerVars, storeVars, clientVars, resolverVars, listingVars, groupVars, previewVars, heuristicVars, matchVars>>

\* FontLoadingCache.clear
ClearCache ==
    /\ loadingPromises' = NoLoading
    /\ cacheLoaded' = {}
    /\ cacheFailed' = {}
    /\ UNCHANGED <<promiseState, promiseKey>>
    /\ UNCHANGED <<validatorVars, sanitizerVars, storeVars, clientVars, resolverVars, listingVars, groupVars, previewVars, heuristicVars, matchVars>>

-----------------------------------------------------------------------------
(* Characteristic Resolver: the heuristic path.                            *)

\* String.prototype.indexOf: first position of pat in s, 0 when absent.
indexOf(s, pat) ==
    LET hits == {i \in 1..(Len(s) - Len(pat) + 1) : SubSeq(s, i, i + Len(pat) - 1) = pat}
    IN IF hits = {} THEN 0 ELSE CHOOSE i \in hits : \A j \in hits : i <= j

\* String.prototype.includes
includes(s, pat) == indexOf(s, pat) # 0

\* String.prototype.replace(pat, rep) with a string pattern: the first
\* occurrence only.
replaceFirst(s, pat, rep) ==
    IF indexOf(s, pat) = 0 THEN s
    ELSE SubSeq(s, 1, indexOf(s, pat) - 1) \o rep
            \o SubSeq(s, indexOf(s, pat) + Len(pat), Len(s))

\* The record the servers build for a stored file.
FontRecord(file) ==
    [id |-> replaceFirst(file, DotTtf, <<>>),
     name |-> replaceFirst(file, DotTtf, <<>>),
     filename |-> file]

\* Whether the lower-case word matches s at position i, ignoring case.
matchesAt(s, i, word) ==
    /\ i + Len(word) - 1 <= Len(s)
    /\ toLowerCase(SubSeq(s, i, i + Len(word) - 1)) = word

\* Length of the first alternative of words that matches s at i, 0 if none.
alternativeAt(s, i, words) ==
    LET ks == {k \in 1..Len(words) : matchesAt(s, i, words[k])}
    IN IF ks = {} THEN 0 ELSE Len(words[CHOOSE k \in ks : \A j \in ks : k <= j])

\* .replace(/[-_](w1|w2|...)/gi, '')
RECURSIVE removeTagged(_, _)
removeTagged(s, words) ==
    IF s = <<>> THEN <<>>
    ELSE IF s[1] \in {"-", "_"} /\ alternativeAt(s, 2, words) > 0
         THEN removeTagged(SubSeq(s, 2 + alternativeAt(s, 2, words), Len(s)), words)
         ELSE <<s[1]>> \o removeTagged(Tail(s), words)

\* .replace(/\.(ttf|otf)$/gi, '')
dropFontExtension(s) ==
    IF Len(s) >= 4 /\ toLowerCase(SubSeq(s, Len(s) - 3, Len(s)))
                        \in {DotTtf, <<".", "o", "t", "f">>}
    THEN SubSeq(s, 1, Len(s) - 4)
    ELSE s

\* .replace(/[-_]/g, ' ')
separatorsToSpaces(s) ==
    [i \in 1..Len(s) |-> IF s[i] \in {"-", "_"} THEN " " ELSE s[i]]

\* String.prototype.trim
trim(s) ==
    LET solid == {i \in 1..Len(s) : s[i] # " "}
    IN IF solid = {} THEN <<>>
       ELSE SubSeq(s, CHOOSE i \in solid : \A j \in solid : i <= j,
                      CHOOSE i \in solid : \A j \in solid : j <= i)

RegularWords == << <<"r","e","g","u","l","a","r">>, <<"n","o","r","m","a","l">>,
                   <<"b","o","o","k">> >>
WeightWords == << <<"t","h","i","n">>, <<"l","i","g","h","t">>,
                  <<"m","e","d","i","u","m">>, <<"s","e","m","i","b","o","l","d">>,
                  <<"b","o","l","d">>, <<"e","x","t","r","a","b","o","l","d">>,
                  <<"b","l","a","c","k">> >>
StyleWords == << <<"i","t","a","l","i","c">>, <<"o","b","l","i","q","u","e">> >>

\* createMinimalFallback: the family name cleaned from font.name
cleanFamilyName(name) ==
    trim(separatorsToSpaces(dropFontExtension(
        removeTagged(removeTagged(removeTagged(name, RegularWords), WeightWords),
                     StyleWords))))

\* `${name} ${filename}` of the lower-cased name and filename
combinedText(font) ==
    toLowerCase(font.name) \o <<" ">> \o toLowerCase(font.filename)

\* createMinimalFallback
createMinimalFallback(font) ==
    [familyName |-> cleanFamilyName(font.name),
     weight |-> IF includes(combinedText(font), <<"b","o","l","d">>) THEN 700
                ELSE IF includes(combinedText(font), <<"l","i","g","h","t">>) THEN 300
                ELSE 400,
     style |-> IF includes(combinedText(font), <<"i","t","a","l","i","c">>)
               THEN "italic" ELSE "normal",
     source |-> "heuristic"]

-----------------------------------------------------------------------------
(* Face Activation Controller: loadFontWithPackages, the load-all effect   *)
(* and handleFontUpload of the App component (which stays mounted).        *)

RobotoHyphen ==
    <<"R","o","b","o","t","o","-","R","e","g","u","l","a","r",".","t","t","f">>
RobotoUnderscore ==
    <<"R","o","b","o","t","o","_","R","e","g","u","l","a","r",".","t","t","f">>

\* The font files of the session.
RecordFiles == {RobotoHyphen, RobotoUnderscore}

\* What opentype.parse reads from a file's name and OS/2 tables.
parsedTables(file) ==
    [fontFamily |-> <<"R","o","b","o","t","o">>,
     fullName |-> <<"R","o","b","o","t","o"," ","R","e","g","u","l","a","r">>,
     preferredFamily |-> <<>>,
     fontSubfamily |-> <<"R","e","g","u","l","a","r">>,
     usWeightClass |-> 400]

\* parseFontWithPackage: fontData of a parsed font
fontDataFromParsed(parsedFont, font) ==
    [familyName |-> IF parsedFont.fontFamily # <<>> THEN parsedFont.fontFamily
                    ELSE IF parsedFont.fullName # <<>> THEN parsedFont.fullName
                    ELSE IF parsedFont.preferredFamily # <<>> THEN parsedFont.preferredFamily
                    ELSE font.name,
     weight |-> IF parsedFont.usWeightClass # 0 THEN parsedFont.usWeightClass ELSE 400,
     style |-> IF includes(toLowerCase(parsedFont.fontSubfamily), <<"i","t","a","l","i","c">>)
               THEN "italic" ELSE "normal",
     source |-> "binary"]

\* createMinimalFallback(font) for each file of the session
minimalFallbacks ==
    [file \in RecordFiles |-> createMinimalFallback(FontRecord(file))]

NoData == [familyName |-> <<>>, weight |-> 0, style |-> "none", source |-> "none"]

\* fontKey = `${font.name}-${font.filename}`
fontKeyOf(file) == FontRecord(file).name \o <<"-">> \o file

\* fontId = `${fontFamily}-${fontData.weight}-${fontData.style}`, kept as
\* its three parts
fontIdOf(fontData) ==
    [familyName |-> fontData.familyName, weight |-> fontData.weight,
     style |-> fontData.style]

Acts == DOMAIN acts
Runs == DOMAIN runs

\* A call is pending from its entry into loadingRef to its return.
PendingPcs == {"fetch", "body", "loading", "observer"}

\* The call made by loadFontWithPackages(font) up to its first await: it
\* returns null at once when the key is in loadingRef, else it starts the
\* fetch of parseFontWithPackage.
newCall(file, owner) ==
    IF fontKeyOf(file) \in loadingRef
    THEN [font |-> file, owner |-> owner, pc |-> "skipped", data |-> NoData,
          result |-> "null", timedOut |-> FALSE, face |-> "none",
          returned |-> TRUE,
          blockedBy |-> CHOOSE b \in Acts :
                            acts[b].font = file /\ acts[b].pc \in PendingPcs]
    ELSE [font |-> file, owner |-> owner, pc |-> "fetch", data |-> NoData,
          result |-> "none", timedOut |-> FALSE, face |-> "none",
          returned |-> FALSE, blockedBy |-> 0]

\* loadingRef.current.add(fontKey), unless the call returned at the guard
refAfterCall(file) == loadingRef \cup {fontKeyOf(file)}

\* The load-all effect runs for the current fonts.
StartLoadAllFonts ==
    /\ effectDue
    /\ Len(runs) < MaxRuns
    /\ effectDue' = FALSE
    /\ runs' = Append(runs, [snapshot |-> fonts, idx |-> 1, results |-> <<>>,
                             waiting |-> 0, done |-> fonts = <<>>])
    /\ loadedFonts' = IF fonts = <<>> THEN {} ELSE loadedFonts
    /\ fontMetadata' = IF fonts = <<>> THEN {} ELSE fontMetadata
    /\ UNCHANGED <<fonts, acts, loadingRef, documentFonts, loadedBy>>
    /\ UNCHANGED <<validatorVars, sanitizerVars, storeVars, cacheVars, resolverVars, listingVars, groupVars, previewVars, heuristicVars, matchVars>>

\* loadAllFonts: `await loadFontWithPackages(font)` for the next font.
RunCallsLoad(r) ==
    /\ r \in Runs
    /\ ~runs[r].done
    /\ runs[r].waiting = 0
    /\ runs[r].idx <= Len(runs[r].snapshot)
    /\ Len(acts) < MaxActivations
    /\ LET file == runs[r].snapshot[runs[r].idx]
           call == newCall(file, r)
       IN /\ acts' = Append(acts, call)
          /\ loadingRef' = refAfterCall(file)
          /\ runs' = IF call.pc = "skipped"
                     THEN [runs EXCEPT ![r].results = Append(@, Len(acts) + 1),
                                       ![r].idx = @ + 1]
                     ELSE [runs EXCEPT ![r].waiting = Len(acts) + 1]
    /\ UNCHANGED <<fonts, effectDue, documentFonts, loadedFonts, fontMetadata, loadedBy>>
    /\ UNCHANGED <<validatorVars, sanitizerVars, storeVars, cacheVars, resolverVars, listingVars, groupVars, previewVars, heuristicVars, matchVars>>

\* loadAllFonts: the awaited call returned; results.push
RunResumes(r) ==
    /\ r \in Runs
    /\ runs[r].waiting # 0
    /\ acts[runs[r].waiting].pc = "settled"
    /\ runs' = [runs EXCEPT ![r].results = Append(@, runs[r].waiting),
                            ![r].idx = @ + 1,
                            ![r].waiting = 0]
    /\ acts' = [acts EXCEPT ![runs[r].waiting].returned = TRUE]
    /\ UNCHANGED <<fonts, effectDue, loadingRef, documentFonts, loadedFonts,
                   fontMetadata, loadedBy>>
    /\ UNCHANGED <<validatorVars, sanitizerVars, storeVars, cacheVars, resolverVars, listingVars, groupVars, previewVars, heuristicVars, matchVars>>

\* The calls of a run that returned a font id.
successfullyLoaded(r) ==
    {a \in {runs[r].results[i] : i \in 1..Len(runs[r].results)} :
        acts[a].result = "fontId"}

\* loadAllFonts: setLoadedFonts(successfullyLoaded)
RunFinishes(r) ==
    /\ r \in Runs
    /\ ~runs[r].done
    /\ runs[r].waiting = 0
    /\ runs[r].idx > Len(runs[r].snapshot)
    /\ runs' = [runs EXCEPT ![r].done = TRUE]
    /\ loadedFonts' = {fontIdOf(acts[a].data) : a \in successfullyLoaded(r)}
    /\ loadedBy' = loadedBy \cup successfullyLoaded(r)
    /\ UNCHANGED <<fonts, effectDue, acts, loadingRef, documentFonts, fontMetadata>>
    /\ UNCHANGED <<validatorVars, sanitizerVars, storeVars, cacheVars, resolverVars, listingVars, groupVars, previewVars, heuristicVars, matchVars>>

\* handleFontUpload: the server stored the file; setFonts, then
\* loadFontWithPackages(uploadedFont).
HandleFontUpload(file) ==
    /\ \A i \in 1..Len(fonts) : fonts[i] # file
    /\ Len(acts) < MaxActivations
    /\ fonts' = Append(fonts, file)
    /\ effectDue' = TRUE
    /\ acts' = Append(acts, newCall(file, 0))
    /\ loadingRef' = refAfterCall(file)
    /\ UNCHANGED <<runs, documentFonts, loadedFonts, fontMetadata, loadedBy>>
    /\ UNCHANGED <<validatorVars, sanitizerVars, storeVars, cacheVars, resolverVars, listingVars, groupVars, previewVars, heuristicVars, matchVars>>

\* handleFontUpload: the awaited call returned; the id, if any, is appended.
UploadResumes(a) ==
    /\ a \in Acts
    /\ acts[a].owner = 0
    /\ acts[a].pc = "settled"
    /\ ~acts[a].returned
    /\ acts' = [acts EXCEPT ![a].returned = TRUE]
    /\ loadedFonts' = IF acts[a].result = "fontId"
                      THEN loadedFonts \cup {fontIdOf(acts[a].data)}
                      ELSE loadedFonts
    /\ loadedBy' = IF acts[a].result = "fontId" THEN loadedBy \cup {a} ELSE loadedBy
    /\ UNCHANGED <<fonts, effectDue, runs, loadingRef, documentFonts, fontMetadata>>
    /\ UNCHANGED <<validatorVars, sanitizerVars, storeVars, cacheVars, resolverVars, listingVars, groupVars, previewVars, heuristicVars, matchVars>>

\* Array.from(document.fonts).find(...) with status 'loaded'
existingFont(fontData) ==
    \E f \in documentFonts :
        /\ acts[f].data.familyName = fontData.familyName
        /\ acts[f].data.weight = fontData.weight
        /\ acts[f].data.style = fontData.style
        /\ acts[f].face = "loaded"

\* loadFontWithPackages from the return of parseFontWithPackage to the
\* await of the race: the metadata is stored; an already loaded face
\* returns the id (finally: the key leaves loadingRef), otherwise a FontFace
\* is made and its load() raced against the 15 s timer.
afterParse(a, fontData) ==
    /\ fontMetadata' = fontMetadata \cup {fontIdOf(fontData)}
    /\ acts' = IF existingFont(fontData)
               THEN [acts EXCEPT ![a].data = fontData, ![a].pc = "settled",
                                 ![a].result = "fontId"]
               ELSE [acts EXCEPT ![a].data = fontData, ![a].pc = "loading",
                                 ![a].face = "loading"]
    /\ loadingRef' = IF existingFont(fontData)
                     THEN loadingRef \ {fontKeyOf(acts[a].font)}
                     ELSE loadingRef
    /\ UNCHANGED <<fonts, effectDue, runs, documentFonts, loadedFonts, loadedBy>>
    /\ UNCHANGED <<validatorVars, sanitizerVars, storeVars, cacheVars, resolverVars, listingVars, groupVars, previewVars, heuristicVars, matchVars>>

\* parseFontWithPackage: fetch answers with an ok response; the abort timer
\* is cleared and the body is awaited.
FetchResponds(a) ==
    /\ a \in Acts
    /\ acts[a].pc = "fetch"
    /\ acts' = [acts EXCEPT ![a].pc = "body"]
    /\ UNCHANGED <<fonts, effectDue, runs, loadingRef, documentFonts, loadedFonts,
                   fontMetadata, loadedBy>>
    /\ UNCHANGED <<validatorVars, sanitizerVars, storeVars, cacheVars, resolverVars, listingVars, groupVars, previewVars, heuristicVars, matchVars>>

\* parseFontWithPackage: fetch rejects or the response is not ok; the catch
\* returns createMinimalFallback(font).
FetchFails(a) ==
    /\ a \in Acts
    /\ acts[a].pc = "fetch"
    /\ afterParse(a, minimalFallbacks[acts[a].font])

\* parseFontWithPackage: the 10 s timer aborts the fetch; the catch returns
\* createMinimalFallback(font).
FetchTimeout(a) ==
    /\ a \in Acts
    /\ acts[a].pc = "fetch"
    /\ afterParse(a, minimalFallbacks[acts[a].font])

\* parseFontWithPackage: the body arrives and is parsed.
BodyParsed(a) ==
    /\ a \in Acts
    /\ acts[a].pc = "body"
    /\ afterParse(a, fontDataFromParsed(parsedTables(acts[a].font),
                                        FontRecord(acts[a].font)))

\* parseFontWithPackage: the body arrives but is no valid font, or reading
\* or parsing it throws; the catch returns createMinimalFallback(font).
BodyFails(a) ==
    /\ a \in Acts
    /\ acts[a].pc = "body"
    /\ afterParse(a, minimalFallbacks[acts[a].font])

\* fontFace.load() resolves first: document.fonts.add(fontFace), then the
\* FontFaceObserver wait.
LoadResolves(a) ==
    /\ a \in Acts
    /\ acts[a].pc = "loading"
    /\ acts' = [acts EXCEPT ![a].pc = "observer", ![a].face = "loaded"]
    /\ documentFonts' = documentFonts \cup {a}
    /\ UNCHANGED <<fonts, effectDue, runs, loadingRef, loadedFonts, fontMetadata, loadedBy>>
    /\ UNCHANGED <<validatorVars, sanitizerVars, storeVars, cacheVars, resolverVars, listingVars, groupVars, previewVars, heuristicVars, matchVars>>

\* fontFace.load() rejects first: catch returns null; finally.
LoadRejects(a) ==
    /\ a \in Acts
    /\ acts[a].pc = "loading"
    /\ acts' = [acts EXCEPT ![a].pc = "settled", ![a].face = "error",
                            ![a].result = "null"]
    /\ loadingRef' = loadingRef \ {fontKeyOf(acts[a].font)}
    /\ UNCHANGED <<fonts, effectDue, runs, documentFonts, loadedFonts, fontMetadata, loadedBy>>
    /\ UNCHANGED <<validatorVars, sanitizerVars, storeVars, cacheVars, resolverVars, listingVars, groupVars, previewVars, heuristicVars, matchVars>>

\* The 15 s timer rejects the race first: catch returns null; finally. The
\* face's own load goes on.
LoadTimeout(a) ==
    /\ a \in Acts
    /\ acts[a].pc = "loading"
    /\ acts' = [acts EXCEPT ![a].pc = "settled", ![a].timedOut = TRUE,
                            ![a].result = "null"]
    /\ loadingRef' = loadingRef \ {fontKeyOf(acts[a].font)}
    /\ UNCHANGED <<fonts, effectDue, runs, documentFonts, loadedFonts, fontMetadata, loadedBy>>
    /\ UNCHANGED <<validatorVars, sanitizerVars, storeVars, cacheVars, resolverVars, listingVars, groupVars, previewVars, heuristicVars, matchVars>>

LateLoadSettlesAddsFace(a, outcome) ==
    /\ a \in Acts
    /\ acts[a].timedOut
    /\ acts[a].face = "loading"
    /\ acts' = [acts EXCEPT ![a].face = outcome]
    /\ documentFonts' = IF outcome = "loaded" THEN documentFonts \cup {a} ELSE documentFonts
    /\ UNCHANGED <<fonts, effectDue, runs, loadingRef, loadedFonts, fontMetadata, loadedBy>>
    /\ UNCHANGED <<validatorVars, sanitizerVars, storeVars, cacheVars, resolverVars, listingVars, groupVars, previewVars, heuristicVars, matchVars>>

\* The load promise of a timed-out race settles later: nothing awaits it.
LateLoadSettles(a, outcome) ==
    /\ a \in Acts
    /\ acts[a].timedOut
    /\ acts[a].face = "loading"
    /\ acts' = [acts EXCEPT ![a].face = outcome]
    /\ UNCHANGED <<fonts, effectDue, runs, loadingRef, documentFonts, loadedFonts,
                   fontMetadata, loadedBy>>
    /\ UNCHANGED <<validatorVars, sanitizerVars, storeVars, cacheVars, resolverVars, listingVars, groupVars, previewVars, heuristicVars, matchVars>>

\* The FontFaceObserver wait ends (it is raced against a 5 s timer that
\* resolves): return fontId; finally.
ObserverDone(a) ==
    /\ a \in Acts
    /\ acts[a].pc = "observer"
    /\ acts' = [acts EXCEPT ![a].pc = "settled", ![a].result = "fontId"]
    /\ loadingRef' = loadingRef \ {fontKeyOf(acts[a].font)}
    /\ UNCHANGED <<fonts, effectDue, runs, documentFonts, loadedFonts, fontMetadata, loadedBy>>
    /\ UNCHANGED <<validatorVars, sanitizerVars, storeVars, cacheVars, resolverVars, listingVars, groupVars, previewVars, heuristicVars, matchVars>>

\* The font listings loadInitialData can deliver: no filename twice.
InitialListings ==
    {s \in StringsUpTo(RecordFiles, Cardinality(RecordFiles)) :
        \A i, j \in 1..Len(s) : i # j => s[i] # s[j]}

DigitChars == <<"0", "1", "2", "3", "4", "5", "6", "7", "8", "9">>

\* Number.prototype.toString of a non-negative integer
RECURSIVE toDigits(_)
toDigits(n) ==
    IF n < 10 THEN <<DigitChars[n + 1]>>
    ELSE toDigits(n \div 10) \o <<DigitChars[(n % 10) + 1]>>

styleChars ==
    [normal |-> <<"n","o","r","m","a","l">>, italic |-> <<"i","t","a","l","i","c">>,
     none |-> <<>>]

\* The string `${fontFamily}-${fontData.weight}-${fontData.style}`
fontIdString(id) ==
    id.familyName \o <<"-">> \o toDigits(id.weight) \o <<"-">> \o styleChars[id.style]

\* The ids handleFontDelete keeps: those that do not contain the name of
\* the removed record.
withoutName(ids, name) == {id \in ids : ~includes(fontIdString(id), name)}

\* handleFontDelete after the server has deleted the file: setFonts without
\* the record, then the clean-up of loadedFonts and fontMetadata by name.
HandleFontDelete(file) ==
    /\ \E i \in 1..Len(fonts) : fonts[i] = file
    /\ fonts' = SelectSeq(fonts, LAMBDA f : f # file)
    /\ effectDue' = TRUE
    /\ loadedFonts' = withoutName(loadedFonts, FontRecord(file).name)
    /\ fontMetadata' = withoutName(fontMetadata, FontRecord(file).name)
    /\ UNCHANGED <<runs, acts, loadingRef, documentFonts, loadedBy>>
    /\ UNCHANGED <<validatorVars, sanitizerVars, storeVars, cacheVars, resolverVars, listingVars, groupVars, previewVars, heuristicVars, matchVars>>

-----------------------------------------------------------------------------
(* Characteristic Resolver: parseFontWithPackage as a whole.               *)

\* Stored files whose records are resolved: sanitizeFilename returns each
\* of them unchanged.
ResolverFiles ==
    { <<"-","B","o","l","d",".","t","t","f">>,
      <<".","t","t","f">>,
      <<"a",".","t","t","f">>,
      <<"R","-","L","i","g","h","t",".","t","t","f">> }

\* usWeightClass values of an OS/2 table; 0 also stands for an absent one.
WeightClasses == {0, 50, 400, 700, 1000}

\* The name and OS/2 tables opentype.parse can deliver.
ParsedTables ==
    [fontFamily : {<<>>, <<"R">>},
     fullName : {<<>>, <<"R"," ","B">>},
     preferredFamily : {<<>>},
     fontSubfamily : {<<"R","e","g","u","l","a","r">>, <<"I","t","a","l","i","c">>},
     usWeightClass : WeightClasses]

\* The first step of parseFontWithPackage that fails, "none" if none does:
\* the fetch, isValidFontBuffer, opentype.parse, the names check, reading
\* the names for fontData, and reading names or probing glyphs inside
\* detectMonospace / detectSerif.
ParseFailures ==
    {"none", "fetch", "signature", "parse", "noNames", "readNames",
     "detectNames", "glyphProbe"}

\* detectMonospace and detectSerif catch what they throw and return false.
CaughtInDetect == {"detectNames", "glyphProbe"}

ParseOutcomes == [failure : ParseFailures, tables : ParsedTables]

NoOutcome ==
    [failure |-> "none",
     tables |-> [fontFamily |-> <<>>, fullName |-> <<>>, preferredFamily |-> <<>>,
                 fontSubfamily |-> <<>>, usWeightClass |-> 0]]

\* parseFontWithPackage: a throw inside the try returns
\* createMinimalFallback(font), otherwise fontData is built from the parse.
parseFontWithPackage(outcome, font) ==
    IF outcome.failure \in ParseFailures \ ({"none"} \cup CaughtInDetect)
    THEN createMinimalFallback(font)
    ELSE fontDataFromParsed(outcome.tables, font)

\* One call of parseFontWithPackage.
Resolve ==
    /\ resolved = NoData
    /\ resolved' = parseFontWithPackage(resolveOutcome, FontRecord(resolveFont))
    /\ UNCHANGED <<resolveFont, resolveOutcome>>
    /\ UNCHANGED <<validatorVars, sanitizerVars, storeVars, cacheVars, clientVars, listingVars, groupVars, previewVars, heuristicVars, matchVars>>

-----------------------------------------------------------------------------
(* Font store: the listing of getAllFonts.                                 *)

\* Filenames the uploads directory can hold: sanitizeFilename returns each
\* of them unchanged, so saveFont stores them under these names.
ListingNames ==
    {n \in { <<"a",".","t","t","f">>,
             <<"a",".","T","T","F">>,
             <<".","t","t","f">>,
             <<"a",".","t","t","f",".","t","t","f">>,
             <<".","t","t","f","a",".","t","t","f">>,
             <<"a","-","a",".","t","t","f">>,
             <<"a","_","a",".","t","t","f">>,
             <<"f",".","t","t","f">> } : sanitizeFilename(n) = n}

\* No listing has been asked for.
NoListing == [n \in {<<"?">>} |-> FontRecord(<<>>)]

\* FontService.getAllFonts: the records of the files ending in '.ttf'
getAllFonts(dir) ==
    [file \in {f \in DOMAIN dir : endsWith(f, DotTtf)} |-> FontRecord(file)]

\* GET /api/fonts
GetAllFonts ==
    /\ listing = NoListing
    /\ listing' = getAllFonts(files)
    /\ UNCHANGED <<server, files, lastRequest, lastResponse>>
    /\ UNCHANGED <<validatorVars, sanitizerVars, cacheVars, clientVars, resolverVars, groupVars, previewVars, heuristicVars, matchVars>>

-----------------------------------------------------------------------------
(* Group store: validateGroup, GroupService and the group routes; the      *)
(* create and edit forms of the client.                                    *)

\* JSON values of a request body, tagged with their JavaScript type.
Undefined == [type |-> "undefined", value |-> <<>>]
Str(s) == [type |-> "string", value |-> s]
Arr(a) == [type |-> "array", value |-> a]

\* JavaScript truthiness of a value
truthy(v) == v.type = "array" \/ (v.type = "string" /\ v.value # <<>>)

\* Array.isArray
isArray(v) == v.type = "array"

\* Font ids a group entry can select.
FontIds == {"f1", "f2"}

\* The entries {name, selectedFont} of a request body.
Entries == [name : {<<"n">>}, selectedFont : FontIds]

\* title values of a request body: absent, '', 'T', []
TitleValues == {Undefined, Str(<<>>), Str(<<"T">>), Arr(<<>>)}

\* fonts values of a request body: absent, a string, arrays of entries
FontsValues ==
    {Undefined, Str(<<"x">>)} \cup {Arr(a) : a \in StringsUpTo(Entries, MaxFonts)}

\* An id field a request body may carry itself: 0 when it has none.
PayloadIds == {0, 1}

\* Request bodies without an id field, valid and invalid ones.
GroupPayloads == [title : TitleValues, fonts : FontsValues, id : {0}]

\* Valid request bodies, with and without an id field.
IdPayloads ==
    [title : {Str(<<"T">>)},
     fonts : {Arr(a) : a \in [1..2 -> Entries]},
     id : PayloadIds]

NoPayload == [title |-> Undefined, fonts |-> Undefined, id |-> 0]
NoGroupRequest == [op |-> "none", via |-> "none", id |-> 0, payload |-> NoPayload]
NoGroupResponse == [status |-> 0, fontsLength |-> 0]

\* ValidationService.validateGroup
validateGroup(group) ==
    /\ truthy(group.title)
    /\ truthy(group.fonts)
    /\ isArray(group.fonts)
    /\ Len(group.fonts.value) >= 2

\* groups.findIndex(group => group.id === id), 0 for -1
findIndex(id) ==
    LET hits == {i \in 1..Len(groups) : groups[i].id = id}
    IN IF hits = {} THEN 0 ELSE CHOOSE i \in hits : \A j \in hits : i <= j

\* groups.filter(group => group.id !== id)
RECURSIVE filterOutId(_, _)
filterOutId(gs, id) ==
    IF gs = <<>> THEN <<>>
    ELSE IF gs[1].id = id THEN filterOutId(Tail(gs), id)
         ELSE <<gs[1]>> \o filterOutId(Tail(gs), id)

\* The status of a created group: 201 by the http server, 200 by express.
createdStatus == IF server = "http" THEN 201 ELSE 200

\* POST /api/groups: validateGroup, then GroupService.createGroup, whose id
\* is Date.now() unless the body, spread after it, carries one; the clock
\* may or may not have advanced at the next call.
postGroup(payload, via) ==
    /\ lastGroupRequest' = [op |-> "create", via |-> via, id |-> 0, payload |-> payload]
    /\ IF validateGroup(payload)
       THEN /\ groups' = Append(groups, [id |-> IF payload.id # 0 THEN payload.id ELSE clock,
                                         title |-> payload.title,
                                         fonts |-> payload.fonts])
            /\ clock' \in {clock, clock + 1}
            /\ lastGroupResponse' = [status |-> createdStatus,
                                     fontsLength |-> Len(payload.fonts.value)]
       ELSE /\ lastGroupResponse' = [status |-> 400, fontsLength |-> 0]
            /\ UNCHANGED <<groups, clock>>

\* PUT /api/groups/:id: validateGroup, then GroupService.updateGroup
putGroup(id, payload, via) ==
    /\ lastGroupRequest' = [op |-> "update", via |-> via, id |-> id, payload |-> payload]
    /\ clock' = clock
    /\ IF ~validateGroup(payload)
       THEN /\ lastGroupResponse' = [status |-> 400, fontsLength |-> 0]
            /\ groups' = groups
       ELSE IF findIndex(id) = 0
       THEN /\ lastGroupResponse' = [status |-> 404, fontsLength |-> 0]
            /\ groups' = groups
       ELSE /\ groups' = [groups EXCEPT ![findIndex(id)].title = payload.title,
                                        ![findIndex(id)].fonts = payload.fonts,
                                        ![findIndex(id)].id =
                                            IF payload.id # 0 THEN payload.id ELSE @]
            /\ lastGroupResponse' = [status |-> 200,
                                     fontsLength |-> Len(payload.fonts.value)]

\* A client posts a body directly.
PostGroup(payload) ==
    /\ Len(groups) < MaxGroups
    /\ clock <= MaxClock
    /\ postGroup(payload, "api")
    /\ UNCHANGED <<validatorVars, sanitizerVars, storeVars, cacheVars, clientVars,
                   resolverVars, listingVars, previewVars, heuristicVars, matchVars>>

\* A client puts a body directly.
PutGroup(id, payload) ==
    /\ putGroup(id, payload, "api")
    /\ UNCHANGED <<validatorVars, sanitizerVars, storeVars, cacheVars, clientVars,
                   resolverVars, listingVars, previewVars, heuristicVars, matchVars>>

\* DELETE /api/groups/:id: GroupService.deleteGroup
DeleteGroup(id) ==
    /\ lastGroupRequest' = [op |-> "delete", via |-> "api", id |-> id, payload |-> NoPayload]
    /\ groups' = filterOutId(groups, id)
    /\ lastGroupResponse' = [status |-> 200, fontsLength |-> 0]
    /\ clock' = clock
    /\ UNCHANGED <<validatorVars, sanitizerVars, storeVars, cacheVars, clientVars,
                   resolverVars, listingVars, previewVars, heuristicVars, matchVars>>

\* What the user can type as a title, and the rows of the create form.
FormTitles == {<<>>, <<" ">>, <<"T">>}
FormRows ==
    {[fontName |-> <<>>, selectedFont |-> ""], [fontName |-> <<>>, selectedFont |-> "f1"]}
        \cup [fontName : {<<"n">>}, selectedFont : FontIds]

\* The entries the edit form can hold.
EditEntries == Entries

\* fontRows.filter(row => row.selectedFont && row.fontName.trim())
validRows(fontRows) ==
    LET keep(row) == row.selectedFont # "" /\ trim(row.fontName) # <<>>
    IN SelectSeq(fontRows, keep)

\* FontGroupCreator.validateForm: "ok" or the error thrown
validateForm(groupTitle, fontRows) ==
    IF trim(groupTitle) = <<>> THEN "Group title is required"
    ELSE IF Len(validRows(fontRows)) < 2 THEN "You must select at least two fonts"
    ELSE IF Cardinality({validRows(fontRows)[i].selectedFont :
                            i \in 1..Len(validRows(fontRows))})
                # Len(validRows(fontRows))
         THEN "Cannot select the same font multiple times"
         ELSE "ok"

\* FontGroupCreator.handleCreate: groupData
groupData(groupTitle, fontRows) ==
    [title |-> Str(trim(groupTitle)),
     fonts |-> Arr([i \in 1..Len(validRows(fontRows)) |->
                      [name |-> trim(validRows(fontRows)[i].fontName),
                       selectedFont |-> validRows(fontRows)[i].selectedFont]]),
     id |-> 0]

\* A form refused its input: onError, no request is sent.
formRefuses(op, via, id) ==
    /\ lastGroupRequest' = [op |-> op, via |-> via, id |-> id, payload |-> NoPayload]
    /\ lastGroupResponse' = NoGroupResponse
    /\ UNCHANGED <<groups, clock>>

\* FontGroupCreator.handleCreate -> handleGroupCreate -> POST /api/groups
HandleCreate(groupTitle, fontRows) ==
    /\ Len(groups) < MaxGroups
    /\ clock <= MaxClock
    /\ IF validateForm(groupTitle, fontRows) = "ok"
       THEN postGroup(groupData(groupTitle, fontRows), "createForm")
       ELSE formRefuses("create", "createForm", 0)
    /\ UNCHANGED <<validatorVars, sanitizerVars, storeVars, cacheVars, clientVars,
                   resolverVars, listingVars, previewVars, heuristicVars, matchVars>>

\* FontGroupsList.handleSaveEdit -> handleGroupEdit -> PUT /api/groups/:id
HandleSaveEdit(id, title, editFonts) ==
    /\ findIndex(id) # 0
    /\ IF trim(title) = <<>> \/ Len(editFonts) < 2
       THEN formRefuses("update", "editForm", id)
       ELSE putGroup(id, [title |-> Str(title), fonts |-> Arr(editFonts), id |-> 0], "editForm")
    /\ UNCHANGED <<validatorVars, sanitizerVars, storeVars, cacheVars, clientVars,
                   resolverVars, listingVars, previewVars, heuristicVars, matchVars>>

-----------------------------------------------------------------------------
(* PackageBasedPreview: the auto-load effect of the font list's previews.  *)

\* The listed fonts, one preview each.
PreviewFonts == {"font1", "font2"}

NoPreviews == [p \in {} |-> 0]

\* A preview after mounting: its effect is due; loads and failures count
\* the FontFace loads it issued and the attempts that failed.
MountedPreview(loaded) ==
    [isLoaded |-> loaded, isLoadingFont |-> FALSE, loadingAttempt |-> FALSE,
     loadError |-> FALSE, effectDue |-> TRUE, face |-> "none",
     inDocument |-> loaded, loads |-> 0, failures |-> 0]

\* The condition of the auto-load effect.
shouldLoad(pv) == ~pv.isLoaded /\ ~pv.isLoadingFont /\ ~pv.loadingAttempt

\* The effect runs: after mount and after a change of isLoaded or
\* isLoadingFont. When its condition holds, loadFont runs up to its await:
\* a face already in document.fonts ends it at once, otherwise a FontFace is
\* made and load() raced against the 5 s timer.
PreviewEffect(p) ==
    /\ previews[p].effectDue
    /\ IF ~shouldLoad(previews[p]) \/ previews[p].inDocument
       THEN previews' = [previews EXCEPT ![p].effectDue = FALSE,
                                         ![p].loadError =
                                             IF shouldLoad(previews[p]) THEN FALSE ELSE @]
       ELSE /\ previews[p].loads < MaxPreviewLoads
            /\ previews' = [previews EXCEPT ![p].effectDue = TRUE,
                                            ![p].isLoadingFont = TRUE,
                                            ![p].loadingAttempt = TRUE,
                                            ![p].loadError = FALSE,
                                            ![p].face = "loading",
                                            ![p].loads = @ + 1]
    /\ UNCHANGED <<validatorVars, sanitizerVars, storeVars, cacheVars, clientVars,
                   resolverVars, listingVars, groupVars, heuristicVars, matchVars>>

\* load() wins the race: document.fonts.add; finally.
PreviewLoadResolves(p) ==
    /\ previews[p].face = "loading"
    /\ previews' = [previews EXCEPT ![p].face = "loaded",
                                    ![p].inDocument = TRUE,
                                    ![p].isLoadingFont = FALSE,
                                    ![p].loadingAttempt = FALSE,
                                    ![p].effectDue = TRUE]
    /\ UNCHANGED <<validatorVars, sanitizerVars, storeVars, cacheVars, clientVars,
                   resolverVars, listingVars, groupVars, heuristicVars, matchVars>>

\* load() rejects: catch sets loadError; finally.
PreviewLoadRejects(p) ==
    /\ previews[p].face = "loading"
    /\ previews' = [previews EXCEPT ![p].face = "error",
                                    ![p].loadError = TRUE,
                                    ![p].failures = @ + 1,
                                    ![p].isLoadingFont = FALSE,
                                    ![p].loadingAttempt = FALSE,
                                    ![p].effectDue = TRUE]
    /\ UNCHANGED <<validatorVars, sanitizerVars, storeVars, cacheVars, clientVars,
                   resolverVars, listingVars, groupVars, heuristicVars, matchVars>>

\* The 5 s timer wins the race: catch sets loadError; finally.
PreviewLoadTimeout(p) ==
    /\ previews[p].face = "loading"
    /\ previews' = [previews EXCEPT ![p].face = "timedOut",
                                    ![p].loadError = TRUE,
                                    ![p].failures = @ + 1,
                                    ![p].isLoadingFont = FALSE,
                                    ![p].loadingAttempt = FALSE,
                                    ![p].effectDue = TRUE]
    /\ UNCHANGED <<validatorVars, sanitizerVars, storeVars, cacheVars, clientVars,
                   resolverVars, listingVars, groupVars, heuristicVars, matchVars>>

\* App puts the font's id into loadedFonts, its face being in
\* document.fonts: FontList renders again and the preview, a component
\* defined inside FontList, is mounted anew.
AppReportsLoaded(p) ==
    /\ ~previews[p].isLoaded
    /\ previews' = [previews EXCEPT ![p] = [MountedPreview(TRUE) EXCEPT
                                               !.loads = previews[p].loads,
                                               !.failures = previews[p].failures]]
    /\ UNCHANGED <<validatorVars, sanitizerVars, storeVars, cacheVars, clientVars,
                   resolverVars, listingVars, groupVars, heuristicVars, matchVars>>

-----------------------------------------------------------------------------
(* Characteristic Resolver: the three heuristic resolvers of the client.   *)

\* Families after which the stored files are named.
HeurFamilies == { <<"R","o","b","o","t","o">>, <<"O","p","e","n","-","S","a","n","s">> }

\* Weight and style suffixes of file names.
SuffixWords ==
    { <<"R","e","g","u","l","a","r">>,
      <<"B","o","l","d">>,
      <<"L","i","g","h","t">>,
      <<"M","e","d","i","u","m">>,
      <<"S","e","m","i","B","o","l","d">>,
      <<"E","x","t","r","a","B","o","l","d">>,
      <<"B","l","a","c","k">>,
      <<"T","h","i","n">>,
      <<"E","x","t","r","a","L","i","g","h","t">>,
      <<"I","t","a","l","i","c">>,
      <<"O","b","l","i","q","u","e">>,
      <<"V","a","r","i","a","b","l","e","F","o","n","t">> }

\* A second suffix, joined to the first by a separator or directly.
SecondWords == { <<"I","t","a","l","i","c">>, <<"O","b","l","i","q","u","e">>, <<"B","o","l","d">> }
HeurSeps == { <<"-">>, <<"_">> }
JoinSeps == HeurSeps \cup { <<>> }

\* Stored files: a family, a family with one suffix, a family with two.
\* sanitizeFilename returns each of them unchanged.
HeuristicInputs ==
    {[family |-> f, file |-> f \o DotTtf] : f \in HeurFamilies}
    \cup {[family |-> f, file |-> f \o s \o w \o DotTtf] :
             f \in HeurFamilies, s \in HeurSeps, w \in SuffixWords}
    \cup {[family |-> f, file |-> f \o s \o w \o j \o v \o DotTtf] :
             f \in HeurFamilies, s \in HeurSeps, w \in SuffixWords,
             j \in JoinSeps, v \in SecondWords}

Bold == <<"b","o","l","d">>
Light == <<"l","i","g","h","t">>
Italic == <<"i","t","a","l","i","c">>

\* findFontData of PackageBasedPreview, no metadata key matching: the
\* "enhanced fallback"
findFontDataFallback(font) ==
    [familyName |-> trim(separatorsToSpaces(dropFontExtension(
                        removeTagged(removeTagged(removeTagged(font.name, RegularWords),
                                                  WeightWords), StyleWords)))),
     weight |-> IF includes(combinedText(font), Bold) THEN 700
                ELSE IF includes(combinedText(font), Light) THEN 300
                ELSE 400,
     style |-> IF includes(combinedText(font), Italic) THEN "italic" ELSE "normal",
     source |-> "heuristic"]

\* The fallback characteristics with the light test before the bold test.
fallbackCharacteristicsLightFirst(font) ==
    [familyName |-> dropFontExtension(separatorsToSpaces(font.name)),
     weight |-> IF includes(toLowerCase(font.name), Light) THEN 300
                ELSE IF includes(toLowerCase(font.name), Bold) THEN 700
                ELSE 400,
     style |-> IF includes(toLowerCase(font.name), Italic) THEN "italic" ELSE "normal",
     source |-> "heuristic"]

\* findFontCharacteristics of DynamicFontPreview, no key matching: the
\* fallback characteristics, from font.name alone
fallbackCharacteristics(font) ==
    [familyName |-> dropFontExtension(separatorsToSpaces(font.name)),
     weight |-> IF includes(toLowerCase(font.name), Bold) THEN 700
                ELSE IF includes(toLowerCase(font.name), Light) THEN 300
                ELSE 400,
     style |-> IF includes(toLowerCase(font.name), Italic) THEN "italic" ELSE "normal",
     source |-> "heuristic"]

NoHeuristic ==
    [done |-> FALSE, minimal |-> NoData, findFontData |-> NoData, characteristics |-> NoData]

\* The record of the file is resolved by createMinimalFallback and by the
\* fallbacks of the two previews.
ResolveHeuristic ==
    /\ ~heurResult.done
    /\ heurResult' = [done |-> TRUE,
                      minimal |-> createMinimalFallback(FontRecord(heurFile)),
                      findFontData |-> findFontDataFallback(FontRecord(heurFile)),
                      characteristics |-> fallbackCharacteristics(FontRecord(heurFile))]
    /\ UNCHANGED <<heurFamily, heurFile>>
    /\ UNCHANGED <<validatorVars, sanitizerVars, storeVars, cacheVars, clientVars,
                   resolverVars, listingVars, groupVars, previewVars, matchVars>>

-----------------------------------------------------------------------------
(* Identity Matcher: how the previews of the font list find the data of a *)
(* record among the metadata keys, and whether they report it loaded.      *)

\* Stored files whose previews are rendered.
MatchFiles ==
    { <<"R","o","b","o","t","o",".","t","t","f">>,
      <<"R","o","b","o","t","o","-","I","t","a","l","i","c",".","t","t","f">>,
      <<"R","o","b","o","t","o","M","o","n","o",".","t","t","f">>,
      <<"1","2","3",".","t","t","f">> }

\* Font ids under which App has stored metadata.
MatchIds ==
    { [familyName |-> <<"R","o","b","o","t","o">>, weight |-> 700, style |-> "normal"],
      [familyName |-> <<"R","o","b","o","t","o">>, weight |-> 400, style |-> "italic"],
      [familyName |-> <<"R","o","b","o","t","o","M","o","n","o">>, weight |-> 400, style |-> "normal"],
      [familyName |-> <<"L","a","t","o">>, weight |-> 400, style |-> "normal"] }

\* Sequences of distinct ids: the keys of fontMetadata in insertion order.
KeyLists ==
    {s \in StringsUpTo(MatchIds, MaxKeys) : \A i, j \in 1..Len(s) : i # j => s[i] # s[j]}

\* .toLowerCase().replace(/[^a-z]/g, '')
lettersOnly(s) == SelectSeq(toLowerCase(s), LAMBDA c : c \in LowerLetters)

\* key.split('-')[0]
beforeHyphen(s) ==
    IF indexOf(s, <<"-">>) = 0 THEN s ELSE SubSeq(s, 1, indexOf(s, <<"-">>) - 1)

\* s.substring(0, 8)
first8(s) == IF Len(s) <= 8 THEN s ELSE SubSeq(s, 1, 8)

\* font.filename.replace(/\.(ttf|otf|woff|woff2)$/i, '')
fontFileName(file) ==
    IF Len(file) >= 6 /\ toLowerCase(SubSeq(file, Len(file) - 5, Len(file)))
                            = <<".","w","o","f","f","2">>
    THEN SubSeq(file, 1, Len(file) - 6)
    ELSE IF Len(file) >= 5 /\ toLowerCase(SubSeq(file, Len(file) - 4, Len(file)))
                                 = <<".","w","o","f","f">>
    THEN SubSeq(file, 1, Len(file) - 5)
    ELSE dropFontExtension(file)

\* Array.prototype.find over the keys, given the indices of the keys that
\* pass the test: the first of them, 0 when there is none.
firstHit(hits) ==
    IF hits = {} THEN 0 ELSE CHOOSE i \in hits : \A j \in hits : i <= j

\* The key strings Object.keys delivers.
keyString(keys, i) == fontIdString(keys[i])

\* findFontCharacteristics of DynamicFontPreview: the three strategies
matchingKey(font, keys) ==
    LET byFile == firstHit({i \in 1..Len(keys) :
                     lettersOnly(beforeHyphen(keyString(keys, i)))
                        = lettersOnly(fontFileName(font.filename))})
        byName == firstHit({i \in 1..Len(keys) :
                     lettersOnly(beforeHyphen(keyString(keys, i))) = lettersOnly(font.name)})
        partial == firstHit({i \in 1..Len(keys) :
                     \/ includes(lettersOnly(keyString(keys, i)), first8(lettersOnly(font.name)))
                     \/ includes(lettersOnly(font.name), first8(lettersOnly(keyString(keys, i))))})
    IN IF byFile # 0 THEN byFile ELSE IF byName # 0 THEN byName ELSE partial

\* findFontData of PackageBasedPreview: the two strategies
matchingMetadataKey(font, keys) ==
    LET byName == firstHit({i \in 1..Len(keys) :
                     \/ lettersOnly(beforeHyphen(keyString(keys, i))) = lettersOnly(font.name)
                     \/ includes(toLowerCase(beforeHyphen(keyString(keys, i))),
                                 first8(lettersOnly(font.name)))
                     \/ includes(lettersOnly(font.name),
                                 first8(toLowerCase(beforeHyphen(keyString(keys, i)))))})
        byFile == firstHit({i \in 1..Len(keys) :
                     \/ includes(lettersOnly(beforeHyphen(keyString(keys, i))),
                                 first8(lettersOnly(font.filename)))
                     \/ includes(lettersOnly(font.filename),
                                 first8(lettersOnly(beforeHyphen(keyString(keys, i)))))})
    IN IF byName # 0 THEN byName ELSE byFile

\* The data a preview works with: that of the matching key, else its fallback.
dataOf(k, keys, fallback) ==
    IF k = 0 THEN fontIdOf(fallback) ELSE keys[k]

\* DynamicFontPreview: isLoaded
listIsLoaded(data, loaded) ==
    \/ data \in loaded
    \/ \E id \in loaded : beforeHyphen(fontIdString(id)) = data.familyName

\* PackageBasedPreview: isLoaded
previewIsLoaded(data, loaded) ==
    \/ data \in loaded
    \/ \E id \in loaded :
          toLowerCase(beforeHyphen(fontIdString(id))) = toLowerCase(data.familyName)

NoMatchResult ==
    [done |-> FALSE, listKey |-> 0, previewKey |-> 0,
     listData |-> fontIdOf(NoData), previewData |-> fontIdOf(NoData),
     listLoaded |-> FALSE, previewLoaded |-> FALSE]

\* FontList renders the preview of the record: both preview components
\* find its data and decide whether it is loaded.
RenderPreview ==
    /\ ~matchResult.done
    /\ LET font == FontRecord(matchFile)
           lk == matchingKey(font, matchKeys)
           pk == matchingMetadataKey(font, matchKeys)
           ld == dataOf(lk, matchKeys, fallbackCharacteristics(font))
           pd == dataOf(pk, matchKeys, findFontDataFallback(font))
       IN matchResult' = [done |-> TRUE, listKey |-> lk, previewKey |-> pk,
                          listData |-> ld, previewData |-> pd,
                          listLoaded |-> listIsLoaded(ld, matchLoaded),
                          previewLoaded |-> previewIsLoaded(pd, matchLoaded)]
    /\ UNCHANGED <<matchFile, matchKeys, matchLoaded>>
    /\ UNCHANGED <<validatorVars, sanitizerVars, storeVars, cacheVars, clientVars,
                   resolverVars, listingVars, groupVars, previewVars, heuristicVars>>

\* The id under which loadFontWithPackages stores the data of a record
\* whose parse failed: that of createMinimalFallback.
resolvedId(file) == fontIdOf(createMinimalFallback(FontRecord(file)))

\* Font record sets of the App: lists of distinct stored files.
FontSets ==
    {s \in StringsUpTo(MatchFiles, MaxFontSet) :
        s # <<>> /\ \A i, j \in 1..Len(s) : i # j => s[i] # s[j]}

-----------------------------------------------------------------------------
(* Specifications.                                                         *)

NextValidator == ServerValidate \/ ClientValidate

\* A buffer from ValidatorBuffers is handed to both validators.
InitValidator ==
    /\ buffer \in ValidatorBuffers
    /\ serverVerdict = "unset"
    /\ clientVerdict = "unset"
    /\ rawName = <<>>
    /\ safeName = Unset
    /\ safeTwice = Unset
    /\ sanitizeCalls = 0
    /\ server = "http"
    /\ files = NoFiles
    /\ lastRequest = NoRequest
    /\ lastResponse = NoResponse
    /\ loadingPromises = NoLoading
    /\ cacheLoaded = {}
    /\ cacheFailed = {}
    /\ promiseState = NoPromises
    /\ promiseKey = NoKeys
    /\ fonts = <<>>
    /\ effectDue = FALSE
    /\ runs = <<>>
    /\ acts = <<>>
    /\ loadingRef = {}
    /\ documentFonts = {}
    /\ loadedFonts = {}
    /\ fontMetadata = {}
    /\ loadedBy = {}
    /\ resolveFont = <<>>
    /\ resolveOutcome = NoOutcome
    /\ resolved = NoData
    /\ listing = NoListing
    /\ groups = <<>>
    /\ clock = 1
    /\ lastGroupRequest = NoGroupRequest
    /\ lastGroupResponse = NoGroupResponse
    /\ previews = NoPreviews
    /\ heurFamily = <<>>
    /\ heurFile = <<>>
    /\ heurResult = NoHeuristic
    /\ matchFile = <<>>
    /\ matchKeys = <<>>
    /\ matchLoaded = {}
    /\ matchResult = NoMatchResult

SpecValidator == InitValidator /\ [][NextValidator]_vars

NextSanitizer == SanitizeOnce \/ SanitizeAgain

\* A raw filename from RawNames is sanitized, and the result once more.
InitSanitizer ==
    /\ buffer = IdleBuffer
    /\ serverVerdict = "unset"
    /\ clientVerdict = "unset"
    /\ rawName \in RawNames
    /\ safeName = Unset
    /\ safeTwice = Unset
    /\ sanitizeCalls = 0
    /\ server = "http"
    /\ files = NoFiles
    /\ lastRequest = NoRequest
    /\ lastResponse = NoResponse
    /\ loadingPromises = NoLoading
    /\ cacheLoaded = {}
    /\ cacheFailed = {}
    /\ promiseState = NoPromises
    /\ promiseKey = NoKeys
    /\ fonts = <<>>
    /\ effectDue = FALSE
    /\ runs = <<>>
    /\ acts = <<>>
    /\ loadingRef = {}
    /\ documentFonts = {}
    /\ loadedFonts = {}
    /\ fontMetadata = {}
    /\ loadedBy = {}
    /\ resolveFont = <<>>
    /\ resolveOutcome = NoOutcome
    /\ resolved = NoData
    /\ listing = NoListing
    /\ groups = <<>>
    /\ clock = 1
    /\ lastGroupRequest = NoGroupRequest
    /\ lastGroupResponse = NoGroupResponse
    /\ previews = NoPreviews
    /\ heurFamily = <<>>
    /\ heurFile = <<>>
    /\ heurResult = NoHeuristic
    /\ matchFile = <<>>
    /\ matchKeys = <<>>
    /\ matchLoaded = {}
    /\ matchResult = NoMatchResult

SpecSanitizer == InitSanitizer /\ [][NextSanitizer]_vars

NextStore ==
    \/ \E n \in UploadNames, d \in UploadData : UploadHttp(n, d)
    \/ \E n \in UploadNames, m \in MimeTypes, d \in UploadData : UploadExpress(n, m, d)
    \/ \E n \in DeleteNames : DeleteFont(n)

\* Either server starts on an empty uploads directory.
InitStore ==
    /\ buffer = IdleBuffer
    /\ serverVerdict = "unset"
    /\ clientVerdict = "unset"
    /\ rawName = <<>>
    /\ safeName = Unset
    /\ safeTwice = Unset
    /\ sanitizeCalls = 0
    /\ server \in {"http", "express"}
    /\ files = NoFiles
    /\ lastRequest = NoRequest
    /\ lastResponse = NoResponse
    /\ loadingPromises = NoLoading
    /\ cacheLoaded = {}
    /\ cacheFailed = {}
    /\ promiseState = NoPromises
    /\ promiseKey = NoKeys
    /\ fonts = <<>>
    /\ effectDue = FALSE
    /\ runs = <<>>
    /\ acts = <<>>
    /\ loadingRef = {}
    /\ documentFonts = {}
    /\ loadedFonts = {}
    /\ fontMetadata = {}
    /\ loadedBy = {}
    /\ resolveFont = <<>>
    /\ resolveOutcome = NoOutcome
    /\ resolved = NoData
    /\ listing = NoListing
    /\ groups = <<>>
    /\ clock = 1
    /\ lastGroupRequest = NoGroupRequest
    /\ lastGroupResponse = NoGroupResponse
    /\ previews = NoPreviews
    /\ heurFamily = <<>>
    /\ heurFile = <<>>
    /\ heurResult = NoHeuristic
    /\ matchFile = <<>>
    /\ matchKeys = <<>>
    /\ matchLoaded = {}
    /\ matchResult = NoMatchResult

SpecStore == InitStore /\ [][NextStore]_vars

NextCache ==
    \/ \E k \in CacheKeys : SetLoading(k)
    \/ \E p \in 1..MaxPromises : PromiseResolves(p)
    \/ \E p \in 1..MaxPromises : PromiseRejects(p)
    \/ \E k \in CacheKeys : RemoveFont(k)
    \/ ClearCache

\* A new FontLoadingCache: nothing loading, loaded or failed.
InitCache ==
    /\ buffer = IdleBuffer
    /\ serverVerdict = "unset"
    /\ clientVerdict = "unset"
    /\ rawName = <<>>
    /\ safeName = Unset
    /\ safeTwice = Unset
    /\ sanitizeCalls = 0
    /\ server = "http"
    /\ files = NoFiles
    /\ lastRequest = NoRequest
    /\ lastResponse = NoResponse
    /\ loadingPromises = NoLoading
    /\ cacheLoaded = {}
    /\ cacheFailed = {}
    /\ promiseState = NoPromises
    /\ promiseKey = NoKeys
    /\ fonts = <<>>
    /\ effectDue = FALSE
    /\ runs = <<>>
    /\ acts = <<>>
    /\ loadingRef = {}
    /\ documentFonts = {}
    /\ loadedFonts = {}
    /\ fontMetadata = {}
    /\ loadedBy = {}
    /\ resolveFont = <<>>
    /\ resolveOutcome = NoOutcome
    /\ resolved = NoData
    /\ listing = NoListing
    /\ groups = <<>>
    /\ clock = 1
    /\ lastGroupRequest = NoGroupRequest
    /\ lastGroupResponse = NoGroupResponse
    /\ previews = NoPreviews
    /\ heurFamily = <<>>
    /\ heurFile = <<>>
    /\ heurResult = NoHeuristic
    /\ matchFile = <<>>
    /\ matchKeys = <<>>
    /\ matchLoaded = {}
    /\ matchResult = NoMatchResult

SpecCache == InitCache /\ [][NextCache]_vars

NextActivation ==
    \/ StartLoadAllFonts
    \/ \E r \in 1..MaxRuns : RunCallsLoad(r)
    \/ \E r \in 1..MaxRuns : RunResumes(r)
    \/ \E r \in 1..MaxRuns : RunFinishes(r)
    \/ \E f \in RecordFiles : HandleFontUpload(f)
    \/ \E a \in 1..MaxActivations : UploadResumes(a)
    \/ \E a \in 1..MaxActivations : FetchResponds(a)
    \/ \E a \in 1..MaxActivations : FetchFails(a)
    \/ \E a \in 1..MaxActivations : FetchTimeout(a)
    \/ \E a \in 1..MaxActivations : BodyParsed(a)
    \/ \E a \in 1..MaxActivations : BodyFails(a)
    \/ \E a \in 1..MaxActivations : LoadResolves(a)
    \/ \E a \in 1..MaxActivations : LoadRejects(a)
    \/ \E a \in 1..MaxActivations : LoadTimeout(a)
    \/ \E a \in 1..MaxActivations, o \in {"loaded", "error"} : LateLoadSettles(a, o)
    \/ \E a \in 1..MaxActivations : ObserverDone(a)

\* The App after loadInitialData: the fonts of the listing, nothing loaded.
InitActivation ==
    /\ buffer = IdleBuffer
    /\ serverVerdict = "unset"
    /\ clientVerdict = "unset"
    /\ rawName = <<>>
    /\ safeName = Unset
    /\ safeTwice = Unset
    /\ sanitizeCalls = 0
    /\ server = "http"
    /\ files = NoFiles
    /\ lastRequest = NoRequest
    /\ lastResponse = NoResponse
    /\ loadingPromises = NoLoading
    /\ cacheLoaded = {}
    /\ cacheFailed = {}
    /\ promiseState = NoPromises
    /\ promiseKey = NoKeys
    /\ fonts \in InitialListings
    /\ effectDue = TRUE
    /\ runs = <<>>
    /\ acts = <<>>
    /\ loadingRef = {}
    /\ documentFonts = {}
    /\ loadedFonts = {}
    /\ fontMetadata = {}
    /\ loadedBy = {}
    /\ resolveFont = <<>>
    /\ resolveOutcome = NoOutcome
    /\ resolved = NoData
    /\ listing = NoListing
    /\ groups = <<>>
    /\ clock = 1
    /\ lastGroupRequest = NoGroupRequest
    /\ lastGroupResponse = NoGroupResponse
    /\ previews = NoPreviews
    /\ heurFamily = <<>>
    /\ heurFile = <<>>
    /\ heurResult = NoHeuristic
    /\ matchFile = <<>>
    /\ matchKeys = <<>>
    /\ matchLoaded = {}
    /\ matchResult = NoMatchResult

SpecActivation == InitActivation /\ [][NextActivation]_vars

\* A session in which nothing is uploaded: the load-all effect runs once for
\* the fonts of the listing.
NextLoadAll ==
    \/ StartLoadAllFonts
    \/ \E r \in 1..MaxRuns : RunCallsLoad(r)
    \/ \E r \in 1..MaxRuns : RunResumes(r)
    \/ \E r \in 1..MaxRuns : RunFinishes(r)
    \/ \E a \in 1..MaxActivations : FetchResponds(a)
    \/ \E a \in 1..MaxActivations : FetchFails(a)
    \/ \E a \in 1..MaxActivations : FetchTimeout(a)
    \/ \E a \in 1..MaxActivations : BodyParsed(a)
    \/ \E a \in 1..MaxActivations : BodyFails(a)
    \/ \E a \in 1..MaxActivations : LoadResolves(a)
    \/ \E a \in 1..MaxActivations : LoadRejects(a)
    \/ \E a \in 1..MaxActivations : LoadTimeout(a)
    \/ \E a \in 1..MaxActivations, o \in {"loaded", "error"} : LateLoadSettles(a, o)
    \/ \E a \in 1..MaxActivations : ObserverDone(a)

\* Timers fire and continuations of settled awaits run; network completions
\* (fetch, body, face load) are under no obligation to happen.
TimerOrContinuation ==
    \/ StartLoadAllFonts
    \/ \E r \in 1..MaxRuns : RunCallsLoad(r) \/ RunResumes(r) \/ RunFinishes(r)
    \/ \E a \in 1..MaxActivations : FetchTimeout(a) \/ LoadTimeout(a) \/ ObserverDone(a)

LoadAllFairness == WF_vars(TimerOrContinuation)

FairSpecLoadAll == InitActivation /\ [][NextLoadAll]_vars /\ LoadAllFairness

NextResolver == Resolve

\* A stored file and what fetching and parsing it does.
InitResolver ==
    /\ buffer = IdleBuffer
    /\ serverVerdict = "unset"
    /\ clientVerdict = "unset"
    /\ rawName = <<>>
    /\ safeName = Unset
    /\ safeTwice = Unset
    /\ sanitizeCalls = 0
    /\ server = "http"
    /\ files = NoFiles
    /\ lastRequest = NoRequest
    /\ lastResponse = NoResponse
    /\ loadingPromises = NoLoading
    /\ cacheLoaded = {}
    /\ cacheFailed = {}
    /\ promiseState = NoPromises
    /\ promiseKey = NoKeys
    /\ fonts = <<>>
    /\ effectDue = FALSE
    /\ runs = <<>>
    /\ acts = <<>>
    /\ loadingRef = {}
    /\ documentFonts = {}
    /\ loadedFonts = {}
    /\ fontMetadata = {}
    /\ loadedBy = {}
    /\ resolveFont \in ResolverFiles
    /\ resolveOutcome \in ParseOutcomes
    /\ resolved = NoData
    /\ listing = NoListing
    /\ groups = <<>>
    /\ clock = 1
    /\ lastGroupRequest = NoGroupRequest
    /\ lastGroupResponse = NoGroupResponse
    /\ previews = NoPreviews
    /\ heurFamily = <<>>
    /\ heurFile = <<>>
    /\ heurResult = NoHeuristic
    /\ matchFile = <<>>
    /\ matchKeys = <<>>
    /\ matchLoaded = {}
    /\ matchResult = NoMatchResult

SpecResolver == InitResolver /\ [][NextResolver]_vars

NextListing == GetAllFonts

\* The uploads directory holds any set of the stored filenames.
InitListing ==
    /\ buffer = IdleBuffer
    /\ serverVerdict = "unset"
    /\ clientVerdict = "unset"
    /\ rawName = <<>>
    /\ safeName = Unset
    /\ safeTwice = Unset
    /\ sanitizeCalls = 0
    /\ server = "http"
    /\ files \in {[n \in S |-> FontA] : S \in SUBSET ListingNames}
    /\ lastRequest = NoRequest
    /\ lastResponse = NoResponse
    /\ loadingPromises = NoLoading
    /\ cacheLoaded = {}
    /\ cacheFailed = {}
    /\ promiseState = NoPromises
    /\ promiseKey = NoKeys
    /\ fonts = <<>>
    /\ effectDue = FALSE
    /\ runs = <<>>
    /\ acts = <<>>
    /\ loadingRef = {}
    /\ documentFonts = {}
    /\ loadedFonts = {}
    /\ fontMetadata = {}
    /\ loadedBy = {}
    /\ resolveFont = <<>>
    /\ resolveOutcome = NoOutcome
    /\ resolved = NoData
    /\ listing = NoListing
    /\ groups = <<>>
    /\ clock = 1
    /\ lastGroupRequest = NoGroupRequest
    /\ lastGroupResponse = NoGroupResponse
    /\ previews = NoPreviews
    /\ heurFamily = <<>>
    /\ heurFile = <<>>
    /\ heurResult = NoHeuristic
    /\ matchFile = <<>>
    /\ matchKeys = <<>>
    /\ matchLoaded = {}
    /\ matchResult = NoMatchResult

SpecListing == InitListing /\ [][NextListing]_vars

NextGroups ==
    \/ \E p \in GroupPayloads : PostGroup(p)
    \/ \E i \in 1..MaxClock, p \in GroupPayloads : PutGroup(i, p)
    \/ \E i \in 1..MaxClock : DeleteGroup(i)
    \/ \E g \in FormTitles, r \in StringsUpTo(FormRows, MaxFonts) : HandleCreate(g, r)
    \/ \E i \in 1..MaxClock, g \in FormTitles, f \in StringsUpTo(EditEntries, MaxFonts) : HandleSaveEdit(i, g, f)

\* Either server starts with an empty groups.json.
InitGroups ==
    /\ buffer = IdleBuffer
    /\ serverVerdict = "unset"
    /\ clientVerdict = "unset"
    /\ rawName = <<>>
    /\ safeName = Unset
    /\ safeTwice = Unset
    /\ sanitizeCalls = 0
    /\ server \in {"http", "express"}
    /\ files = NoFiles
    /\ lastRequest = NoRequest
    /\ lastResponse = NoResponse
    /\ loadingPromises = NoLoading
    /\ cacheLoaded = {}
    /\ cacheFailed = {}
    /\ promiseState = NoPromises
    /\ promiseKey = NoKeys
    /\ fonts = <<>>
    /\ effectDue = FALSE
    /\ runs = <<>>
    /\ acts = <<>>
    /\ loadingRef = {}
    /\ documentFonts = {}
    /\ loadedFonts = {}
    /\ fontMetadata = {}
    /\ loadedBy = {}
    /\ resolveFont = <<>>
    /\ resolveOutcome = NoOutcome
    /\ resolved = NoData
    /\ listing = NoListing
    /\ groups = <<>>
    /\ clock = 1
    /\ lastGroupRequest = NoGroupRequest
    /\ lastGroupResponse = NoGroupResponse
    /\ previews = NoPreviews
    /\ heurFamily = <<>>
    /\ heurFile = <<>>
    /\ heurResult = NoHeuristic
    /\ matchFile = <<>>
    /\ matchKeys = <<>>
    /\ matchLoaded = {}
    /\ matchResult = NoMatchResult

SpecGroups == InitGroups /\ [][NextGroups]_vars

NextPreview ==
    \/ \E p \in PreviewFonts : PreviewEffect(p)
    \/ \E p \in PreviewFonts : PreviewLoadResolves(p)
    \/ \E p \in PreviewFonts : PreviewLoadRejects(p)
    \/ \E p \in PreviewFonts : PreviewLoadTimeout(p)
    \/ \E p \in PreviewFonts : AppReportsLoaded(p)

\* FontList has rendered a preview for each font; none is reported loaded.
InitPreview ==
    /\ buffer = IdleBuffer
    /\ serverVerdict = "unset"
    /\ clientVerdict = "unset"
    /\ rawName = <<>>
    /\ safeName = Unset
    /\ safeTwice = Unset
    /\ sanitizeCalls = 0
    /\ server = "http"
    /\ files = NoFiles
    /\ lastRequest = NoRequest
    /\ lastResponse = NoResponse
    /\ loadingPromises = NoLoading
    /\ cacheLoaded = {}
    /\ cacheFailed = {}
    /\ promiseState = NoPromises
    /\ promiseKey = NoKeys
    /\ fonts = <<>>
    /\ effectDue = FALSE
    /\ runs = <<>>
    /\ acts = <<>>
    /\ loadingRef = {}
    /\ documentFonts = {}
    /\ loadedFonts = {}
    /\ fontMetadata = {}
    /\ loadedBy = {}
    /\ resolveFont = <<>>
    /\ resolveOutcome = NoOutcome
    /\ resolved = NoData
    /\ listing = NoListing
    /\ groups = <<>>
    /\ clock = 1
    /\ lastGroupRequest = NoGroupRequest
    /\ lastGroupResponse = NoGroupResponse
    /\ previews = [p \in PreviewFonts |-> MountedPreview(FALSE)]
    /\ heurFamily = <<>>
    /\ heurFile = <<>>
    /\ heurResult = NoHeuristic
    /\ matchFile = <<>>
    /\ matchKeys = <<>>
    /\ matchLoaded = {}
    /\ matchResult = NoMatchResult

SpecPreview == InitPreview /\ [][NextPreview]_vars

NextFontSet ==
    \/ StartLoadAllFonts
    \/ \E r \in 1..MaxRuns : RunCallsLoad(r)
    \/ \E r \in 1..MaxRuns : RunResumes(r)
    \/ \E r \in 1..MaxRuns : RunFinishes(r)
    \/ \E a \in 1..MaxActivations : FetchResponds(a)
    \/ \E a \in 1..MaxActivations : FetchFails(a)
    \/ \E a \in 1..MaxActivations : FetchTimeout(a)
    \/ \E a \in 1..MaxActivations : BodyParsed(a)
    \/ \E a \in 1..MaxActivations : BodyFails(a)
    \/ \E a \in 1..MaxActivations : LoadResolves(a)
    \/ \E a \in 1..MaxActivations : LoadRejects(a)
    \/ \E a \in 1..MaxActivations : LoadTimeout(a)
    \/ \E a \in 1..MaxActivations, o \in {"loaded", "error"} : LateLoadSettles(a, o)
    \/ \E a \in 1..MaxActivations : ObserverDone(a)
    \/ \E f \in RecordFiles : HandleFontDelete(f)

\* The App after loadInitialData; fonts of the listing are deleted while
\* the load-all effect runs (nothing is uploaded).
InitFontSet ==
    /\ buffer = IdleBuffer
    /\ serverVerdict = "unset"
    /\ clientVerdict = "unset"
    /\ rawName = <<>>
    /\ safeName = Unset
    /\ safeTwice = Unset
    /\ sanitizeCalls = 0
    /\ server = "http"
    /\ files = NoFiles
    /\ lastRequest = NoRequest
    /\ lastResponse = NoResponse
    /\ loadingPromises = NoLoading
    /\ cacheLoaded = {}
    /\ cacheFailed = {}
    /\ promiseState = NoPromises
    /\ promiseKey = NoKeys
    /\ fonts \in InitialListings
    /\ effectDue = TRUE
    /\ runs = <<>>
    /\ acts = <<>>
    /\ loadingRef = {}
    /\ documentFonts = {}
    /\ loadedFonts = {}
    /\ fontMetadata = {}
    /\ loadedBy = {}
    /\ resolveFont = <<>>
    /\ resolveOutcome = NoOutcome
    /\ resolved = NoData
    /\ listing = NoListing
    /\ groups = <<>>
    /\ clock = 1
    /\ lastGroupRequest = NoGroupRequest
    /\ lastGroupResponse = NoGroupResponse
    /\ previews = NoPreviews
    /\ heurFamily = <<>>
    /\ heurFile = <<>>
    /\ heurResult = NoHeuristic
    /\ matchFile = <<>>
    /\ matchKeys = <<>>
    /\ matchLoaded = {}
    /\ matchResult = NoMatchResult

SpecFontSet == InitFontSet /\ [][NextFontSet]_vars

NextHeuristic == ResolveHeuristic

\* A stored file named after a family; its record is not yet resolved.
InitHeuristic ==
    /\ buffer = IdleBuffer
    /\ serverVerdict = "unset"
    /\ clientVerdict = "unset"
    /\ rawName = <<>>
    /\ safeName = Unset
    /\ safeTwice = Unset
    /\ sanitizeCalls = 0
    /\ server = "http"
    /\ files = NoFiles
    /\ lastRequest = NoRequest
    /\ lastResponse = NoResponse
    /\ loadingPromises = NoLoading
    /\ cacheLoaded = {}
    /\ cacheFailed = {}
    /\ promiseState = NoPromises
    /\ promiseKey = NoKeys
    /\ fonts = <<>>
    /\ effectDue = FALSE
    /\ runs = <<>>
    /\ acts = <<>>
    /\ loadingRef = {}
    /\ documentFonts = {}
    /\ loadedFonts = {}
    /\ fontMetadata = {}
    /\ loadedBy = {}
    /\ resolveFont = <<>>
    /\ resolveOutcome = NoOutcome
    /\ resolved = NoData
    /\ listing = NoListing
    /\ groups = <<>>
    /\ clock = 1
    /\ lastGroupRequest = NoGroupRequest
    /\ lastGroupResponse = NoGroupResponse
    /\ previews = NoPreviews
    /\ heurFamily \in HeurFamilies
    /\ heurFile \in {i.file : i \in {j \in HeuristicInputs : j.family = heurFamily}}
    /\ heurResult = NoHeuristic
    /\ matchFile = <<>>
    /\ matchKeys = <<>>
    /\ matchLoaded = {}
    /\ matchResult = NoMatchResult

SpecHeuristic == InitHeuristic /\ [][NextHeuristic]_vars

NextMatch == RenderPreview

\* FontList is about to render the preview of a stored file, given the
\* metadata keys and the loaded ids App holds.
InitMatch ==
    /\ buffer = IdleBuffer
    /\ serverVerdict = "unset"
    /\ clientVerdict = "unset"
    /\ rawName = <<>>
    /\ safeName = Unset
    /\ safeTwice = Unset
    /\ sanitizeCalls = 0
    /\ server = "http"
    /\ files = NoFiles
    /\ lastRequest = NoRequest
    /\ lastResponse = NoResponse
    /\ loadingPromises = NoLoading
    /\ cacheLoaded = {}
    /\ cacheFailed = {}
    /\ promiseState = NoPromises
    /\ promiseKey = NoKeys
    /\ fonts = <<>>
    /\ effectDue = FALSE
    /\ runs = <<>>
    /\ acts = <<>>
    /\ loadingRef = {}
    /\ documentFonts = {}
    /\ loadedFonts = {}
    /\ fontMetadata = {}
    /\ loadedBy = {}
    /\ resolveFont = <<>>
    /\ resolveOutcome = NoOutcome
    /\ resolved = NoData
    /\ listing = NoListing
    /\ groups = <<>>
    /\ clock = 1
    /\ lastGroupRequest = NoGroupRequest
    /\ lastGroupResponse = NoGroupResponse
    /\ previews = NoPreviews
    /\ heurFamily = <<>>
    /\ heurFile = <<>>
    /\ heurResult = NoHeuristic
    /\ matchFile \in MatchFiles
    /\ matchKeys \in KeyLists
    /\ matchLoaded \in SUBSET {matchKeys[i] : i \in 1..Len(matchKeys)}
    /\ matchResult = NoMatchResult

SpecMatch == InitMatch /\ [][NextMatch]_vars

NextGroupIds ==
    \/ \E payload \in IdPayloads : PostGroup(payload)
    \/ \E id \in 1..MaxClock, payload \in IdPayloads : PutGroup(id, payload)
    \/ \E id \in 1..MaxClock : DeleteGroup(id)

\* Either server starts on an empty groups.json; clients send valid bodies,
\* some of which carry an id field.
InitGroupIds ==
    /\ buffer = IdleBuffer
    /\ serverVerdict = "unset"
    /\ clientVerdict = "unset"
    /\ rawName = <<>>
    /\ safeName = Unset
    /\ safeTwice = Unset
    /\ sanitizeCalls = 0
    /\ server \in {"http", "express"}
    /\ files = NoFiles
    /\ lastRequest = NoRequest
    /\ lastResponse = NoResponse
    /\ loadingPromises = NoLoading
    /\ cacheLoaded = {}
    /\ cacheFailed = {}
    /\ promiseState = NoPromises
    /\ promiseKey = NoKeys
    /\ fonts = <<>>
    /\ effectDue = FALSE
    /\ runs = <<>>
    /\ acts = <<>>
    /\ loadingRef = {}
    /\ documentFonts = {}
    /\ loadedFonts = {}
    /\ fontMetadata = {}
    /\ loadedBy = {}
    /\ resolveFont = <<>>
    /\ resolveOutcome = NoOutcome
    /\ resolved = NoData
    /\ listing = NoListing
    /\ groups = <<>>
    /\ clock = 1
    /\ lastGroupRequest = NoGroupRequest
    /\ lastGroupResponse = NoGroupResponse
    /\ previews = NoPreviews
    /\ heurFamily = <<>>
    /\ heurFile = <<>>
    /\ heurResult = NoHeuristic
    /\ matchFile = <<>>
    /\ matchKeys = <<>>
    /\ matchLoaded = {}
    /\ matchResult = NoMatchResult

SpecGroupIds == InitGroupIds /\ [][NextGroupIds]_vars

NextSaveList ==
    \/ \E n \in UploadNames, d \in UploadData : UploadHttp(n, d)
    \/ \E n \in DeleteNames : DeleteFont(n)
    \/ GetAllFonts

\* The validating server starts on an empty uploads directory; fonts are
\* saved and deleted, and the listing is asked for once.
InitSaveList ==
    /\ buffer = IdleBuffer
    /\ serverVerdict = "unset"
    /\ clientVerdict = "unset"
    /\ rawName = <<>>
    /\ safeName = Unset
    /\ safeTwice = Unset
    /\ sanitizeCalls = 0
    /\ server = "http"
    /\ files = NoFiles
    /\ lastRequest = NoRequest
    /\ lastResponse = NoResponse
    /\ loadingPromises = NoLoading
    /\ cacheLoaded = {}
    /\ cacheFailed = {}
    /\ promiseState = NoPromises
    /\ promiseKey = NoKeys
    /\ fonts = <<>>
    /\ effectDue = FALSE
    /\ runs = <<>>
    /\ acts = <<>>
    /\ loadingRef = {}
    /\ documentFonts = {}
    /\ loadedFonts = {}
    /\ fontMetadata = {}
    /\ loadedBy = {}
    /\ resolveFont = <<>>
    /\ resolveOutcome = NoOutcome
    /\ resolved = NoData
    /\ listing = NoListing
    /\ groups = <<>>
    /\ clock = 1
    /\ lastGroupRequest = NoGroupRequest
    /\ lastGroupResponse = NoGroupResponse
    /\ previews = NoPreviews
    /\ heurFamily = <<>>
    /\ heurFile = <<>>
    /\ heurResult = NoHeuristic
    /\ matchFile = <<>>
    /\ matchKeys = <<>>
    /\ matchLoaded = {}
    /\ matchResult = NoMatchResult

SpecSaveList == InitSaveList /\ [][NextSaveList]_vars

NextDelete == \E f \in MatchFiles : HandleFontDelete(f)

\* The App after loadAllFonts has finished for its fonts, every parse having
\* fallen back to the heuristic: metadata for each font, some of them loaded.
InitDelete ==
    /\ buffer = IdleBuffer
    /\ serverVerdict = "unset"
    /\ clientVerdict = "unset"
    /\ rawName = <<>>
    /\ safeName = Unset
    /\ safeTwice = Unset
    /\ sanitizeCalls = 0
    /\ server = "http"
    /\ files = NoFiles
    /\ lastRequest = NoRequest
    /\ lastResponse = NoResponse
    /\ loadingPromises = NoLoading
    /\ cacheLoaded = {}
    /\ cacheFailed = {}
    /\ promiseState = NoPromises
    /\ promiseKey = NoKeys
    /\ fonts \in FontSets
    /\ effectDue = FALSE
    /\ runs = <<>>
    /\ acts = <<>>
    /\ loadingRef = {}
    /\ documentFonts = {}
    /\ loadedFonts \in SUBSET {resolvedId(fonts[i]) : i \in 1..Len(fonts)}
    /\ fontMetadata = {resolvedId(fonts[i]) : i \in 1..Len(fonts)}
    /\ loadedBy = {}
    /\ resolveFont = <<>>
    /\ resolveOutcome = NoOutcome
    /\ resolved = NoData
    /\ listing = NoListing
    /\ groups = <<>>
    /\ clock = 1
    /\ lastGroupRequest = NoGroupRequest
    /\ lastGroupResponse = NoGroupResponse
    /\ previews = NoPreviews
    /\ heurFamily = <<>>
    /\ heurFile = <<>>
    /\ heurResult = NoHeuristic
    /\ matchFile = <<>>
    /\ matchKeys = <<>>
    /\ matchLoaded = {}
    /\ matchResult = NoMatchResult

SpecDelete == InitDelete /\ [][NextDelete]_vars

-----------------------------------------------------------------------------
(* C1: both validators accept a buffer exactly when it has at least 100    *)
(* bytes and its first four bytes are 00 01 00 00, 'true', 'OTTO' or       *)
(* 'ttcf'; every shorter buffer and every other signature is rejected.     *)

KnownSignatureBytes ==
    { <<0, 1, 0, 0>>,            \* TrueType
      <<116, 114, 117, 101>>,    \* 't' 'r' 'u' 'e'
      <<79, 84, 84, 79>>,        \* 'O' 'T' 'T' 'O'
      <<116, 116, 99, 102>> }    \* 't' 't' 'c' 'f'

C1_Expected ==
    Verdict(buffer.length >= 100 /\ buffer.head \in KnownSignatureBytes)

C1_ValidatorAcceptsExactlyKnownFonts ==
    /\ serverVerdict # "unset" => serverVerdict = C1_Expected
    /\ clientVerdict # "unset" => clientVerdict = C1_Expected

\* A 100-byte 'OTTO' buffer has been accepted by both validators.
C1_Witness ==
    /\ buffer.length = 100
    /\ buffer.head = <<79, 84, 84, 79>>
    /\ serverVerdict = "accept"
    /\ clientVerdict = "accept"

-----------------------------------------------------------------------------
(* C4: sanitizeFilename is idempotent: sanitizing an already sanitized     *)
(* name gives the same name.                                               *)

C4_SanitizeIdempotent ==
    sanitizeCalls = 2 => safeTwice = safeName

\* An upper-case ".TTF" name with a stripped character went through twice.
C4_Witness ==
    /\ sanitizeCalls = 2
    /\ rawName = <<"/", ".", "T", "T", "F">>
    /\ safeName = <<".", "T", "T", "F">>

-----------------------------------------------------------------------------
(* C5: the sanitized name has only characters of [A-Za-z0-9._-], no two    *)
(* consecutive dots, and ends case-insensitively in ".ttf"; when the       *)
(* stripped and dot-collapsed input does not end in ".ttf", the result is  *)
(* that input with its last extension (if any) replaced by ".ttf".         *)

\* The input with unsafe characters removed and dot runs collapsed, stated
\* without the code's helpers: the subsequence of safe characters that are
\* not a dot following a dot.
C5_Cleaned ==
    LET safe == SelectSeq(rawName, LAMBDA c : c \in SafeChars)
        keep == {i \in 1..Len(safe) : ~(i > 1 /\ safe[i] = "." /\ safe[i-1] = ".")}
        nth(k) == CHOOSE i \in keep : Cardinality({j \in keep : j <= i}) = k
    IN [k \in 1..Cardinality(keep) |-> safe[nth(k)]]

C5_HasTtfExtension(s) ==
    /\ Len(s) >= 4
    /\ s[Len(s) - 3] = "."
    /\ s[Len(s) - 2] \in {"t", "T"}
    /\ s[Len(s) - 1] \in {"t", "T"}
    /\ s[Len(s)] \in {"f", "F"}

C5_SanitizedShape ==
    sanitizeCalls >= 1 =>
        /\ \A i \in 1..Len(safeName) : safeName[i] \in SafeChars
        /\ \A i \in 1..(Len(safeName) - 1) : ~(safeName[i] = "." /\ safeName[i+1] = ".")
        /\ C5_HasTtfExtension(safeName)
        /\ IF C5_HasTtfExtension(C5_Cleaned)
           THEN safeName = C5_Cleaned
           ELSE \E stem \in {SubSeq(C5_Cleaned, 1, n) : n \in 0..Len(C5_Cleaned)} :
                   /\ safeName = stem \o DotTtf
                   /\ \/ stem = C5_Cleaned /\ \A i \in 1..Len(stem) : stem[i] # "."
                      \/ /\ Len(stem) < Len(C5_Cleaned)
                         /\ C5_Cleaned[Len(stem) + 1] = "."
                         /\ \A i \in (Len(stem) + 2)..Len(C5_Cleaned) : C5_Cleaned[i] # "."

\* A name with a doubled dot and a non-font extension had that extension
\* replaced.
C5_Witness ==
    /\ sanitizeCalls >= 1
    /\ rawName = <<"a", ".", ".", "t", "a">>
    /\ safeName = <<"a", ".", "t", "t", "f">>
-----------------------------------------------------------------------------
(* C2: an upload whose bytes are shorter than 100 bytes, carry an unknown   *)
(* signature or exceed 10 MiB is answered with an error and leaves the     *)
(* stored files (names and contents) as they were.                         *)

C2_FailsValidation(data) ==
    \/ data.length < 100
    \/ data.head \notin KnownSignatureBytes
    \/ data.length > 10 * 1024 * 1024

C2_InvalidUploadNeverStored ==
    [][(lastRequest'.op = "upload" /\ C2_FailsValidation(lastRequest'.data))
          => (lastResponse'.status >= 400 /\ files' = files)]_vars

-----------------------------------------------------------------------------
(* C3: an upload whose sanitized name is the name of a stored font is      *)
(* refused with an error and the stored file keeps its contents.           *)

C3_DuplicateUploadRefused ==
    [][(lastRequest'.op = "upload"
          /\ sanitizeFilename(lastRequest'.filename) \in DOMAIN files)
          => (lastResponse'.status >= 400 /\ files' = files)]_vars

-----------------------------------------------------------------------------
(* C8: a key becomes loaded (active) or failed only from the loading        *)
(* (pending) state: never straight from not-attempted, and never from      *)
(* active to failed or from failed to active without being pending again.  *)

C8_SettledOnlyFromPending ==
    [][\A k \in CacheKeys :
          /\ (~isLoaded(k) /\ isLoaded(k)') => isLoading(k)
          /\ (~hasFailed(k) /\ hasFailed(k)') => isLoading(k)]_vars

-----------------------------------------------------------------------------
\* C6: at most one face load is in flight per FaceKey (familyName, weight,
\* style) at any time: two calls whose fontFace.load() is outstanding never
\* carry the same font id.
C6_SingleFlightPerFaceKey ==
    \A a, b \in Acts :
        (/\ acts[a].pc = "loading"
         /\ acts[b].pc = "loading"
         /\ fontIdOf(acts[a].data) = fontIdOf(acts[b].data)) => a = b
-----------------------------------------------------------------------------
\* C7: a caller that finds the key's activation pending receives the outcome
\* of that pending activation once it has settled: it is never left with
\* null while the activation it met returned the font id.
C7_SecondCallerSharesOutcome ==
    \A a \in Acts :
        (acts[a].pc = "skipped" /\ acts[acts[a].blockedBy].pc = "settled")
            => acts[a].result = acts[acts[a].blockedBy].result
-----------------------------------------------------------------------------
\* C9: a call whose face load lost the race against the 15 s timer returns
\* null, its face is not in document.fonts and its id is not put into
\* loadedFonts, also after the load promise has settled late.
C9_TimedOutLoadLeavesNothing ==
    \A a \in Acts :
        acts[a].timedOut =>
            /\ acts[a].result = "null"
            /\ a \notin documentFonts
            /\ a \notin loadedBy

\* A load timed out, its owner took the null, and the load promise then
\* resolved.
C9_Witness ==
    \E a \in Acts :
        acts[a].timedOut /\ acts[a].returned /\ acts[a].face = "loaded"
-----------------------------------------------------------------------------
\* C10: with timers and continuations scheduled fairly, every pending call
\* of loadFontWithPackages eventually returns, also when a network request
\* never completes.
C10_PendingEventuallySettles ==
    \A a \in 1..MaxActivations :
        (a \in Acts /\ acts[a].pc \in PendingPcs)
            ~> (a \in Acts /\ acts[a].pc = "settled")
-----------------------------------------------------------------------------
\* C15: characteristic resolution returns a non-empty familyName for every
\* font record of the store, on the binary and on the heuristic path.
C15_FamilyNameNonEmpty ==
    resolved # NoData => resolved.familyName # <<>>
-----------------------------------------------------------------------------
\* C16: whenever a step of binary parsing fails, the family, weight and
\* style returned are those createMinimalFallback computes from the record.
C16_FailedParseGivesHeuristic ==
    (resolved # NoData /\ resolveOutcome.failure # "none")
        => fontIdOf(resolved) = fontIdOf(createMinimalFallback(FontRecord(resolveFont)))
-----------------------------------------------------------------------------
\* C20: every resolved weight is between 100 and 900.
C20_WeightInRange ==
    resolved # NoData => (resolved.weight >= 100 /\ resolved.weight <= 900)
-----------------------------------------------------------------------------
\* C19: in a listing of the font store no two records have the same id.
C19_ListingIdsUnique ==
    listing # NoListing =>
        \A f, g \in DOMAIN listing : f # g => listing[f].id # listing[g].id
-----------------------------------------------------------------------------
\* C11: a preview whose load failed or timed out issues no further face
\* load (the font set does not change and nobody asks for a load again).
C11_NoAutomaticRetry ==
    [][\A p \in PreviewFonts :
          previews[p].failures > 0 => previews'[p].loads = previews[p].loads]_vars
-----------------------------------------------------------------------------
\* C12: for a FaceKey that is active (a loaded face with that family,
\* weight and style is in document.fonts) at most one face load was issued
\* that did not fail: no second load for the key is outstanding or has
\* succeeded.
C12_AtMostOneLoadPerActiveKey ==
    \A f \in documentFonts :
        \A a, b \in Acts :
            (/\ fontIdOf(acts[a].data) = fontIdOf(acts[f].data)
             /\ fontIdOf(acts[b].data) = fontIdOf(acts[f].data)
             /\ acts[a].face \in {"loading", "loaded"} /\ ~acts[a].timedOut
             /\ acts[b].face \in {"loading", "loaded"} /\ ~acts[b].timedOut)
                => a = b
-----------------------------------------------------------------------------
\* C13: a key the cache reports as neither loading, loaded nor failed (as
\* it does after removeFont, called when the font record is deleted) stays
\* so until it is set loading again: a promise that was pending when the
\* key was removed does not mark the key loaded or failed when it settles.
C13_RemovedKeyStaysRemoved ==
    [][\A k \in CacheKeys :
          (/\ ~isLoading(k) /\ ~isLoaded(k) /\ ~hasFailed(k)
           /\ (isLoaded(k)' \/ hasFailed(k)' \/ isLoading(k)'))
              => isLoading(k)']_vars
-----------------------------------------------------------------------------
\* Every load-all run has finished, no run is due and every call of
\* loadFontWithPackages has returned to its caller.
allLoadsSettled ==
    /\ ~effectDue
    /\ \A r \in Runs : runs[r].done
    /\ \A a \in Acts : acts[a].pc \in {"settled", "skipped"} /\ acts[a].returned

\* C14: once all loads have settled, every id in loadedFonts and in
\* fontMetadata is the id of a font of the current font record set.
C14_OnlyCurrentFontsRemain ==
    allLoadsSettled =>
        \A id \in loadedFonts \cup fontMetadata :
            \E a \in Acts :
                /\ \E i \in 1..Len(fonts) : fonts[i] = acts[a].font
                /\ fontIdOf(acts[a].data) = id
-----------------------------------------------------------------------------
\* C17: every stored group has a title that is a non-empty string and a
\* fonts array of at least 2 entries.
C17_StoredGroupsValid ==
    \A i \in 1..Len(groups) :
        /\ groups[i].title.type = "string"
        /\ groups[i].title.value # <<>>
        /\ isArray(groups[i].fonts)
        /\ Len(groups[i].fonts.value) >= 2
-----------------------------------------------------------------------------
\* C18: no stored group has two entries with the same selectedFont.
C18_NoDuplicateSelection ==
    \A g \in 1..Len(groups) :
        \A i, j \in 1..Len(groups[g].fonts.value) :
            i # j => groups[g].fonts.value[i].selectedFont
                        # groups[g].fonts.value[j].selectedFont
-----------------------------------------------------------------------------
\* C21: a preview reports its face as loaded only if the id of its exact
\* FaceKey (familyName, weight, style) is among the loaded ids.
C21_LoadedOnlyByExactKey ==
    matchResult.done =>
        /\ matchResult.listLoaded => matchResult.listData \in matchLoaded
        /\ matchResult.previewLoaded => matchResult.previewData \in matchLoaded
-----------------------------------------------------------------------------
\* C24: whenever a metadata key's normalized family equals the record's
\* normalized name, each matcher returns a key with that normalized family,
\* whatever the order of the keys.
C24_ExactMatchWins ==
    (/\ matchResult.done
     /\ \E i \in 1..Len(matchKeys) :
           lettersOnly(matchKeys[i].familyName) = lettersOnly(FontRecord(matchFile).name))
        => \A k \in {matchResult.listKey, matchResult.previewKey} :
              /\ k # 0
              /\ lettersOnly(matchKeys[k].familyName)
                    = lettersOnly(FontRecord(matchFile).name)
-----------------------------------------------------------------------------
\* C29: a record whose normalized name is empty is matched to no key by
\* either matcher.
C29_EmptyNameMatchesNothing ==
    (matchResult.done /\ lettersOnly(FontRecord(matchFile).name) = <<>>)
        => matchResult.listKey = 0 /\ matchResult.previewKey = 0
-----------------------------------------------------------------------------
\* C22: each heuristic resolver gives weight 700 when the lower-cased name
\* plus filename contains 'bold', else 300 when it contains 'light', else
\* 400, and style italic exactly when it contains 'italic'.
C22_HeuristicWeightAndStyle ==
    heurResult.done =>
        LET combined == combinedText(FontRecord(heurFile))
            weight == IF includes(combined, Bold) THEN 700
                      ELSE IF includes(combined, Light) THEN 300 ELSE 400
            style == IF includes(combined, Italic) THEN "italic" ELSE "normal"
        IN \A r \in {heurResult.minimal, heurResult.findFontData,
                     heurResult.characteristics} :
               r.weight = weight /\ r.style = style

\* A record whose text contains both 'light' and 'bold' was resolved, to
\* weight 700 by every resolver.
C22_Witness ==
    /\ heurResult.done
    /\ includes(toLowerCase(heurFile), Light)
    /\ includes(toLowerCase(heurFile), Bold)
    /\ heurResult.characteristics.weight = 700
    /\ heurResult.minimal.weight = 700
-----------------------------------------------------------------------------
\* C23: for a file named as a family followed by listed suffixes, each
\* heuristic resolver gives the family alone as familyName, separators
\* replaced by spaces and trimmed.
C23_FamilyAlone ==
    heurResult.done =>
        \A r \in {heurResult.minimal, heurResult.findFontData,
                  heurResult.characteristics} :
            r.familyName = trim(separatorsToSpaces(heurFamily))
-----------------------------------------------------------------------------
\* C25: no two stored groups have the same id.
C25_GroupIdsUnique ==
    \A i, j \in 1..Len(groups) : groups[i].id = groups[j].id => i = j
-----------------------------------------------------------------------------
\* C27: a delete request for an id that is not in the store is answered
\* with 404 and leaves the stored groups unchanged.
C27_DeleteOfAbsentIdRefused ==
    [][(lastGroupRequest'.op = "delete" /\ findIndex(lastGroupRequest'.id) = 0)
          => (lastGroupResponse'.status = 404 /\ groups' = groups)]_vars
-----------------------------------------------------------------------------
\* C26: each key of the cache is in at most one of the states loading,
\* loaded and failed.
C26_OneStatePerKey ==
    \A k \in CacheKeys :
        /\ ~(isLoading(k) /\ isLoaded(k))
        /\ ~(isLoading(k) /\ hasFailed(k))
        /\ ~(isLoaded(k) /\ hasFailed(k))
-----------------------------------------------------------------------------
\* C28: every font saveFont has stored appears in the listing taken next,
\* with the record saveFont returned for it.
C28_SavedFontIsListed ==
    [][listing' # listing
          => \A f \in DOMAIN files :
                f \in DOMAIN listing' /\ listing'[f] = FontRecord(f)]_vars
-----------------------------------------------------------------------------
\* C30: handleFontDelete for a record leaves the loadedFonts and
\* fontMetadata entries of every font that stays in the record set, and
\* removes the entries of the deleted record (unless they are also those of
\* a font that stays).
C30_DeleteTouchesOwnEntriesOnly ==
    [][\A file \in MatchFiles :
          ((\E i \in 1..Len(fonts) : fonts[i] = file)
           /\ ~(\E i \in 1..Len(fonts') : fonts'[i] = file))
          => LET kept == {resolvedId(fonts'[i]) : i \in 1..Len(fonts')}
             IN /\ \A id \in kept :
                     /\ id \in loadedFonts => id \in loadedFonts'
                     /\ id \in fontMetadata => id \in fontMetadata'
                /\ resolvedId(file) \notin kept
                     => resolvedId(file) \notin loadedFonts' \cup fontMetadata']_vars
-----------------------------------------------------------------------------
====
